------------------------------- MODULE MCHPKSS -------------------------------
(* The four devices of the installation and what each is sent.             *)
EXTENDS HPKSS

CONSTANTS E, W, B, R

FourDevices == {E, W, B, R}
FourSources ==
  [d \in FourDevices |-> CASE d = E -> {W}
                           [] d = W -> {B, E, R}
                           [] OTHER -> {W, E}]
ThreeDevices == {E, W, B}
ThreeSources ==
  [d \in ThreeDevices |-> CASE d = E -> {W} [] d = W -> {B, E} [] d = B -> {W, E}]

JustB == {B}
JustW == {W}
None == {}
StepStamps == 0..MaxSteps
==============================================================================
