-------------------------- MODULE MCNormalizerPipe --------------------------
(***************************************************************************)
(* The instance of NormalizerPipe for TLC: pipes and a buffer that hold    *)
(* less than one line of an answer, files that are empty, have one line or *)
(* two, with keys that are empty or longer than the buffer.                *)
(***************************************************************************)
EXTENDS NormalizerPipe, TLC

NL(flag, key) == [flag |-> flag, key |-> key]
MCAnswer ==
       <<>> :> <<>>
    @@ <<1>> :> <<NL(0, <<2, 1>>), NL(1, <<>>)>>
    @@ <<2, 1>> :> <<NL(0, <<>>), NL(0, <<1, 2, 0, 2>>)>>
=============================================================================
