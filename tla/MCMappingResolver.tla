------------------------- MODULE MCMappingResolver -------------------------
(* One mode, two recorded buffers and one that is not, a mapping and a     *)
(* longer one, and one that cannot be made canonical.                      *)
EXTENDS MappingResolver

CONSTANTS b1, b2, term

MCLhs == {<<"j">>, <<"j", "k">>, <<"bad">>}
MCUnsupported == {<<"bad">>}
Global(lhs) == [mode |-> "normal", lhs |-> lhs, buffer |-> None]
Local(b, lhs) == [mode |-> "normal", lhs |-> lhs, buffer |-> b]
MCInitial ==
  {{Global(<<"j">>)},
   {Global(<<"j">>), Local(b1, <<"j">>)},
   {Global(<<"j">>), Local(b2, <<"j", "k">>)},
   {Local(b1, <<"j">>), Local(b2, <<"j">>), Local(b2, <<"j", "k">>)}}
=============================================================================
