--------------------------- MODULE TrackingBuffer ---------------------------
(***************************************************************************)
(* The server's record of one display's pixels and of what changed in them *)
(* since the last frame was cut (TrackingBuffer in                         *)
(* aperturec-server/src/task/frame_sync.rs).  A display is a set of        *)
(* Regions, each with one pixel value; a box is a set of regions, and the  *)
(* BoxSet of damaged areas is the union of its boxes.                      *)
(***************************************************************************)
EXTENDS Naturals

CONSTANTS
  Regions,       \* the regions of a display
  Pixels,        \* the pixel values a region can have
  DefaultPixel   \* the pixel of a new map

ASSUME PixelAssumption == DefaultPixel \in Pixels

\* Pixel32Map::default.
Blank == [r \in Regions |-> DefaultPixel]

\* Damage: `areas' is the box set of Partial, empty for None and Full.
DamageNone == [tag |-> "None", areas |-> {}]
DamagePartial(areas) == [tag |-> "Partial", areas |-> areas]
DamageFull == [tag |-> "Full", areas |-> {}]
DamageType == [tag : {"None", "Partial", "Full"}, areas : SUBSET Regions]

\* TrackingBuffer::new, and resize but for its notification.
Fresh(config) ==
  [display_config |-> config, data |-> Blank, damage |-> DamageFull, curr_frame_id |-> 0]

TrackingBufferType ==
  [display_config : Nat, data : [Regions -> Pixels],
   damage : DamageType, curr_frame_id : Nat]

\* Mutant: resize forgets the configuration id.
resize_KeepsConfig(tb, config) == Fresh(tb.display_config)

\* resize (its send on the damage watch is the caller's).
resize(tb, config) == Fresh(config)

\* mark_stale, for each box of a non-empty cover: a box equal to the display's
\* area makes the damage full, any other joins the partial damage.  The box is
\* relative to the display and the area to the desktop, so that only a display
\* at the desktop's origin ever has an equal one.
mark_stale(damage, cover, at_origin) ==
  IF damage.tag = "Full" \/ (at_origin /\ Regions \in cover)
    THEN DamageFull
    ELSE DamagePartial(damage.areas \union UNION cover)

\* The captured pixels new are assigned to the regions of an area.
Assign(data, new, area) == [r \in Regions |-> IF r \in area THEN new[r] ELSE data[r]]

\* diff_rectangle_cover: non-empty boxes within the area that hold every
\* difference; each is a bounding box of differences, so there is none when
\* nothing differs.
IsDiffCover(cover, data, new, area) ==
  /\ cover \subseteq (SUBSET area) \ {{}}
  /\ \A r \in area : data[r] # new[r] => r \in UNION cover
  /\ \A box \in cover : \E r \in box : data[r] # new[r]

\* Mutant: a box is assigned but not marked stale once there is damage.
update_Unmarked(tb, new, area, cover, at_origin) ==
  IF tb.damage.tag = "Full"
    THEN [tb EXCEPT !.data = Assign(@, new, area)]
    ELSE [tb EXCEPT !.data = Assign(@, new, UNION cover),
                    !.damage = IF cover = {} \/ @.tag = "Partial"
                                 THEN @ ELSE mark_stale(@, cover, at_origin)]

\* update with the capture new of a non-empty area of an enabled display, for
\* a diff cover: a fully damaged buffer takes the whole area; otherwise each
\* box of the cover is assigned and marked stale.
update(tb, new, area, cover, at_origin) ==
  IF tb.damage.tag = "Full"
    THEN [tb EXCEPT !.data = Assign(@, new, area)]
    ELSE [tb EXCEPT !.data = Assign(@, new, UNION cover),
                    !.damage = IF cover = {} THEN @ ELSE mark_stale(@, cover, at_origin)]

\* Mutant: mark_stale does not send.
UpdateNotifies_Never(tb, cover) == FALSE

\* Does update send on the damage watch?  Only mark_stale does.
UpdateNotifies(tb, cover) == tb.damage.tag # "Full" /\ cover # {}

\* The regions a frame must carry.
Damaged(damage) == IF damage.tag = "Full" THEN Regions ELSE damage.areas

\* cut_frame returns None when there is no damage.
HasFrame(tb) == tb.damage.tag # "None"

\* The frame cut_frame returns otherwise; it carries the current pixels of its
\* areas.
FrameOf(tb, display) ==
  [id |-> tb.curr_frame_id, display |-> display, display_config |-> tb.display_config,
   areas |-> Damaged(tb.damage)]

\* The buffer after cut_frame.
cut_frame(tb) ==
  IF HasFrame(tb)
    THEN [tb EXCEPT !.damage = DamageNone, !.curr_frame_id = @ + 1]
    ELSE tb

=============================================================================
