----------------------------- MODULE MCOutputs -----------------------------
(***************************************************************************)
(* Outputs on a scale of three steps, moved one at a time, with the        *)
(* phones' volume set to a pair that has a balance.  Each behaviour plays  *)
(* one of two scenes: the phones alone, where DIM, balance and suspends    *)
(* meet and nothing fails, or both outputs, where OUT is pressed between   *)
(* turns and writes to AN1/2 fail.                                         *)
(***************************************************************************)
EXTENDS Outputs

MCLevels == [o \in Outs |-> IF o = Phones THEN {<< 3, 2 >>} ELSE {}]
MCLowest == -5
MCZones == << >>
MCSteps == << 1 >>

VARIABLE scene

NeverFails(o) == \A i \in 1..4 :
    wire'[o][i] = Unknown => wire[o][i] = Unknown \/ panel' = "asleep"

PhonesAlone ==
    /\ sel' = Phones
    /\ \A o \in Outs \ {Phones} : NeverFails(o) /\ UNCHANGED <<master[o], muted[o]>>

BothOutputs == ~dim' /\ ~tick'.held /\ panel' # "asleep"

MCInit == /\ Init
          /\ scene \in {"phones", "both"}
          /\ scene = "phones" => sel = Phones

MCNext == /\ Next /\ UNCHANGED scene
          /\ NeverFails(Phones)
          /\ scene = "phones" => PhonesAlone
          /\ scene = "both" => BothOutputs

\* Where DIM goes back to does not matter while it is off: engaging it sets
\* dim_saved first.
MCView == <<scene, master, muted, dim, IF dim THEN dim_saved ELSE << >>, wire,
            user, wheel, poll>>

MCSpec == MCInit /\ [][MCNext]_<<vars, scene>>
=============================================================================
