------------------------------ MODULE MCMedia ------------------------------
(***************************************************************************)
(* Two encoders, a display that changes between two widths, and a bucket   *)
(* smaller than the largest message.  A behaviour has configurations,      *)
(* damage and the end of the session, or it has cursors.                   *)
(***************************************************************************)
EXTENDS MediaPipeline

\* Serials 1 and 3 have the same image.
MCImage == [s \in 1 .. 3 |-> IF s = 2 THEN 20 ELSE 10]

MCDamages == {{0}}

\* A behaviour starts with a width and has so many reconfigurations, damages,
\* cut frames and failures of one compression, under the server's cap.
Load(width, configs, damages, cuts, failures, cap) ==
  [width |-> width, asks |-> Widths, configs |-> configs, damages |-> damages, frames |-> cuts,
   failures |-> failures, stops |-> FALSE, cursors |-> FALSE, delivers |-> TRUE,
   caps |-> [server |-> cap, client |-> 0]]

\* The end of the session during a reconfiguration, and while large messages wait.
MCEndings ==
  {[Load(2, 1, 0, 1, 0, NoCap) EXCEPT !.asks = {2}, !.stops = TRUE, !.delivers = FALSE]}
    \union {[Load(4, 0, 0, 2, 0, cap) EXCEPT !.stops = TRUE, !.delivers = FALSE] : cap \in 1 .. 2}

MCCursors == {[Load(2, 1, 0, 0, 0, NoCap) EXCEPT !.asks = {4}, !.cursors = TRUE]}

\* The ends; cursors; damage and failing compressions; damage under a cap that lets
\* most messages pass at once; and two reconfigurations with a client that draws.
MCWorkloads ==
  MCEndings \union MCCursors \union
    {Load(2, 0, 1, 2, 1, NoCap), [Load(2, 0, 1, 2, 0, 2) EXCEPT !.delivers = FALSE],
     [Load(2, 2, 0, 1, 0, NoCap) EXCEPT !.asks = {4}]}
=============================================================================
