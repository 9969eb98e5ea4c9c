----------------------------- MODULE MCEntityIds -----------------------------
(***************************************************************************)
(* EntityIds with two names, without and with a number at the end.  Words  *)
(* are strings, so nothing but the UIDs is symmetric; the CHOOSE of the    *)
(* model picks among platforms and numbers.                                *)
(***************************************************************************)
EXTENDS EntityIds

Words == STRING
PlainNames == {<<"office">>, <<"home">>}
NumberedNames == {<<"office">>, <<"office", "2">>}

\* Nothing, or the ID an office asks for, is taken.
OfficeTaken == {{}, {<<"switch", "office">>}}

Symmetry == Permutations(Uid)
==============================================================================
