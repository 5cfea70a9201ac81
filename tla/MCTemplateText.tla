--------------------------- MODULE MCTemplateText ---------------------------
(***************************************************************************)
(* An instance of TemplateText for TLC: two digits, the name and two       *)
(* fields of the user's.  The addressees hold values that look like        *)
(* markers, or begin or end like one, or nothing.                          *)
(***************************************************************************)
EXTENDS TemplateText

MCDigits == <<"0", "1">>

Holding(name, gate, shift) ==
  [name |-> name, gate |-> gate, shift |-> shift]

MCPersons ==
  {Holding(<<"%", "0", "1">>, <<"%", "0", "0">>, <<"%", "1", "0">>),
   Holding(<<"%">>, <<"0", "0">>, <<>>),
   Holding(<<"0">>, <<"%", "0">>, <<"1">>)}
=============================================================================
