----------------------------- MODULE MCFraming ------------------------------
(***************************************************************************)
(* Instances of Framing for TLC.                                           *)
(***************************************************************************)
EXTENDS Framing

\* Eight characters too many reach into the line break before the next message but one.
Long == [i \in 1..8 |-> "wide"]

SomeTexts == {<<"narrow">>, <<"wide">>, <<"wide", "wide">>, Long}

\* A long message comes before short ones. Nothing is claimed once frames that cut a
\* message have overlapped.
MCSpec ==
    /\ FramingInit /\ (Long \in ToSet(sent) => sent = <<Long, <<"narrow">>, <<"narrow">>>>)
    /\ [][FramingNext /\ (apart' \/ whole')]_framingVars
=============================================================================
