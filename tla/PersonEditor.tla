----------------------------- MODULE PersonEditor -----------------------------
(***************************************************************************)
(* The editor of one person (tedit_person): a name, a sum and a list of    *)
(* mobile numbers in rows.  A row is added when the last one is full; a    *)
(* row is erased by the button it carries, which remembers the row it is   *)
(* in (its cookie), or from the menu of a long press, which asks the list  *)
(* box for the row.  Every change calls did_field_changed, and the name    *)
(* and the sum reach the person only as a side effect of can_save there.   *)
(*                                                                         *)
(* Rows and cookies are counted from 1.  The number in a row is "" or a    *)
(* member of Numbers (eleven digits), Letters (eleven characters that are  *)
(* not all digits) or Partial (any other length).                          *)
(***************************************************************************)
EXTENDS Naturals, Sequences

CONSTANTS
  Numbers, Letters, Partial,
  PersonNames, Sums,   \* the names and sums that are not empty
  MaxRows              \* bound: rows of the list box

ASSUME PersonAssumption ==
  /\ Numbers \union Letters \union Partial \subseteq STRING \ {""}
  /\ Numbers \intersect (Letters \union Partial) = {}
  /\ PersonNames \union Sums \subseteq STRING \ {""}
  /\ MaxRows \in Nat

VARIABLES
  rows,         \* mobiles: the number shown in each row and its cookie
  shown,        \* the name and the sum in the text boxes
  kept,         \* the name and the sum of temp_person_
  saveActive,   \* the save button is active
  longErased,   \* history: a row was erased from the long-press menu
  failed        \* the assertions that failed

personVars == <<rows, shown, kept, saveActive, longErased>>

Texts == {""} \union Numbers \union Letters \union Partial
Rows == Seq([number : Texts, cookie : Nat])
Boxes == [name : {""} \union PersonNames, money : {""} \union Sums]
NoPerson == [name |-> "", money |-> "", numbers |-> <<>>]
EmptyBoxes == [name |-> "", money |-> ""]

Without(s, i) == [j \in 1 .. Len(s) - 1 |-> IF j < i THEN s[j] ELSE s[j + 1]]

-----------------------------------------------------------------------------
(* Handlers the others call                                                *)

(* Mutant: the digits of a full number are not looked at.                  *)
RowFull(row) == row.number \in {""} \union Numbers \union Letters

(* mobile_number_ok, or an empty row                                       *)
RowOk(row) == row.number \in {""} \union Numbers

(* did_number_changed compares the length alone                            *)
Full(number) == number \in Numbers \union Letters

(* the return value of can_save                                            *)
CanSave(boxes, list) ==
  boxes.name # "" /\ \A i \in DOMAIN list : RowOk(list[i])

(* What can_save stores on its way: it returns before it reads the sum     *)
(* when the name is empty.                                                 *)
Stored(boxes) ==
  IF boxes.name = "" THEN [kept EXCEPT !.name = ""] ELSE boxes

(* Mutant: only the answer is taken from can_save.                         *)
FieldChangedOnly(boxes, list) ==
  /\ saveActive' = CanSave(boxes, list)
  /\ UNCHANGED kept

did_field_changed(boxes, list) ==
  /\ saveActive' = CanSave(boxes, list)
  /\ kept' = Stored(boxes)

(* insert_mobile: an empty row whose cookie is its own place               *)
WithMobile(list) == Append(list, [number |-> "", cookie |-> Len(list) + 1])

(* fill_mobiles_listbox                                                    *)
Filled(numbers) == [i \in DOMAIN numbers |-> [number |-> numbers[i], cookie |-> i]]

(* The numbers save takes from the list box: those of the rows that are    *)
(* not empty, from the first to the last                                   *)
Increasing(f) == \A j, k \in DOMAIN f : j < k => f[j] < f[k]
InOrder(places, n) ==
  CHOOSE f \in UNION {[1 .. k -> places] : k \in 0 .. n} :
    {f[j] : j \in DOMAIN f} = places /\ Increasing(f)

NumbersIn(list) ==
  LET order == InOrder({i \in DOMAIN list : list[i].number # ""}, Len(list))
  IN  [k \in DOMAIN order |-> list[order[k]].number]

PersonOnScreen ==
  [name |-> kept.name, money |-> kept.money, numbers |-> NumbersIn(rows)]

(* Mutant: the rows that moved up keep their cookies.                      *)
RenumberedNone(list, at) == list

(* erase_mobile gives the rows from the erased one on their new place.     *)
Renumbered(list, at) ==
  [i \in DOMAIN list |-> IF i < at THEN list[i] ELSE [list[i] EXCEPT !.cookie = i]]

-----------------------------------------------------------------------------
(* The actions of the user while the editor is open                        *)

(* pre_show: an empty row follows those of the person's numbers, unless he *)
(* may only be looked at.                                                  *)
ShowPerson(person, readOnly) ==
  LET boxes == [name |-> person.name, money |-> person.money]
      list == IF readOnly THEN Filled(person.numbers)
                          ELSE WithMobile(Filled(person.numbers))
  IN  /\ rows' = list
      /\ shown' = boxes
      /\ kept' = boxes
      /\ saveActive' = CanSave(boxes, list)
      /\ longErased' = FALSE

ClosePerson ==
  /\ rows' = <<>> /\ shown' = EmptyBoxes /\ kept' = EmptyBoxes
  /\ saveActive' = FALSE /\ longErased' = FALSE

TypeBoxes(boxes) ==
  /\ boxes # shown
  /\ shown' = boxes
  /\ did_field_changed(boxes, rows)
  /\ UNCHANGED <<rows, longErased, failed>>

(* did_number_changed: a full number in the last row makes room for another *)
TypeNumber(i, number) ==
  LET typed == [rows EXCEPT ![i].number = number]
      list == IF Full(number) /\ i = Len(rows) THEN WithMobile(typed) ELSE typed
  IN  /\ number # rows[i].number
      /\ Len(list) <= MaxRows
      /\ rows' = list
      /\ did_field_changed(shown, list)
      /\ UNCHANGED <<shown, longErased, failed>>

(* The button of row i erases the row of its cookie; the list box asserts  *)
(* that there is one (tlistbox::erase_row).                                *)
EraseMobile(i) ==
  LET at == rows[i].cookie
  IN  IF at \in 1 .. Len(rows)
      THEN /\ rows' = Renumbered(Without(rows, at), at)
           /\ did_field_changed(shown, rows')
           /\ UNCHANGED <<shown, longErased, failed>>
      ELSE /\ failed' = {"erase_row"}
           /\ UNCHANGED personVars

(* Mutant: the save button is not looked at again.                         *)
LongPressEraseQuietly(i) ==
  /\ rows' = Without(rows, i)
  /\ longErased' = TRUE
  /\ UNCHANGED <<shown, kept, saveActive, failed>>

(* float_widget_click_erase renumbers the tags of the rows and forgets     *)
(* their cookies.                                                          *)
LongPressErase(i) ==
  /\ rows' = Without(rows, i)
  /\ longErased' = TRUE
  /\ did_field_changed(shown, rows')
  /\ UNCHANGED <<shown, failed>>

EditPerson ==
  \/ \E boxes \in Boxes : TypeBoxes(boxes)
  \/ \E i \in DOMAIN rows :
       \/ \E number \in Texts : TypeNumber(i, number)
       \/ EraseMobile(i)
       \/ LongPressErase(i)

PersonTypeOK ==
  /\ rows \in Rows
  /\ shown \in Boxes /\ kept \in Boxes
  /\ saveActive \in BOOLEAN /\ longErased \in BOOLEAN
=============================================================================
