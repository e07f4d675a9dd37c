----------------------------- MODULE MCReactions -----------------------------
(***************************************************************************)
(* Two gases; what plasma becomes in a fire is oxygen here.  The functions  *)
(* generic_fire and fusion, and a reaction of the DM code in two versions   *)
(* with different priorities; one datum lacks the list of its requirements. *)
(* In one list two reactions have the same priority.  Reactions run inside  *)
(* each other.                                                              *)
(***************************************************************************)
EXTENDS Reactions

TwoGases == {"o2", "plasma"}
AllGases == {<<"o2", "plasma">>}

FiveDatums == {"fire", "fusion", "frost", "new frost", "broken"}
DatumId ==
    [d \in FiveDatums |->
        CASE d = "fire"      -> "genericfire"
          [] d = "new frost" -> "frost"
          [] OTHER           -> d]
DatumPriority ==
    [d \in FiveDatums |-> CASE d = "frost" -> 1 [] d = "fusion" -> 3 [] OTHER -> 2]
DatumNeed ==
    [d \in FiveDatums |->
        CASE d = "frost"     -> {"o2"}
          [] d = "new frost" -> {"o2", "plasma"}
          [] d = "fusion"    -> {"plasma"}
          [] OTHER           -> {}]
DatumWarm ==
    [d \in FiveDatums |->
        CASE d = "new frost" -> {FALSE}
          [] d = "fire"      -> {TRUE}
          [] OTHER           -> BOOLEAN]
SoundDatums == FiveDatums \ {"broken"}

SomeLists ==
    {<<"fire", "frost">>, <<"broken", "fire", "new frost">>, <<"fusion", "fire">>}

RustSide == {"genericfire", "fusion"}
AskedGases == [i \in RustSide |-> IF i = "fusion" THEN {"plasma"} ELSE {}]
GasProducts == [g \in TwoGases |-> IF g = "plasma" THEN {"o2"} ELSE {}]

AnyMix == Permutations(Mixes)
=============================================================================
