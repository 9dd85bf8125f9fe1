------------------------------ MODULE BoundedPipe ------------------------------
(***************************************************************************)
(* What a chain of goroutines and channels promises its two ends: things   *)
(* go in and come out one at a time, none is lost or made up, and at most  *)
(* Depth of them are inside.  The capture goroutines' sightings of a       *)
(* console travel to localState.Xboxes through such a chain (Pipeline).    *)
(***************************************************************************)
EXTENDS Naturals

CONSTANT Depth  \* how many the chain can hold

VARIABLES
  put,   \* how many went in
  taken  \* how many came out

pipe == <<put, taken>>

PipeInit == put = 0 /\ taken = 0

Put == put - taken < Depth /\ put' = put + 1 /\ UNCHANGED taken

Take == taken < put /\ taken' = taken + 1 /\ UNCHANGED put

PipeSpec == PipeInit /\ [][Put \/ Take]_pipe
=============================================================================
