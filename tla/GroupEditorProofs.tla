--------------------------- MODULE GroupEditorProofs ---------------------------
(***************************************************************************)
(* Theorems about the editors of a group and its persons, for every set of *)
(* names and numbers and every bound.                                      *)
(***************************************************************************)
EXTENDS GroupEditorInv, SequenceTheorems, WellFoundedInduction, TLAPS

(* A set of natural numbers has a least element.                           *)
LEMMA LeastNatural ==
  ASSUME NEW T, T \subseteq Nat, T # {}
  PROVE  \E m \in T : \A k \in T : ~ (k < m)
<1>1. IsWellFoundedOn(OpToRel(<, Nat), Nat)
  BY NatLessThanWellFounded
<1> DEFINE R == OpToRel(<, Nat)
<1>2. \A k, m \in Nat : k < m => <<k, m>> \in R
  BY DEF OpToRel
<1> HIDE DEF R
<1>3. \E m \in T : \A k \in T : ~ (<<k, m>> \in R)
  BY <1>1, WFMin, Zenon DEF R
<1> QED BY <1>2, <1>3

(* Places of a list can be put in order: what InOrder chooses exists.      *)
Enumerates(f, S, n) ==
  /\ f \in UNION {[1 .. k -> S] : k \in 0 .. n}
  /\ {f[j] : j \in DOMAIN f} = S
  /\ Increasing(f)

LEMMA PlacesInOrder ==
  ASSUME NEW n \in Nat, NEW S \in SUBSET (1 .. n)
  PROVE  \E f : Enumerates(f, S, n)
<1> DEFINE Some(m) == \A Q \in SUBSET (1 .. m) : \E f : Enumerates(f, Q, m)
           T == {m \in Nat : ~ Some(m)}
<1>1. ASSUME T # {} PROVE FALSE
  <2>1. PICK m \in T : \A k \in T : ~ (k < m)
    BY <1>1, LeastNatural
  <2>2. m \in Nat /\ ~ Some(m)
    BY <2>1
  <2>3. PICK Q \in SUBSET (1 .. m) : ~ \E f : Enumerates(f, Q, m)
    BY <2>2
  <2>4. CASE m = 0
    <3>1. Q = {} /\ 1 .. 0 = {}
      BY <2>3, <2>4
    <3>2. << >> \in [1 .. 0 -> Q] /\ DOMAIN << >> = {}
      BY <3>1
    <3>3. Enumerates(<< >>, Q, m)
      BY <2>4, <3>1, <3>2 DEF Enumerates, Increasing
    <3> QED BY <2>3, <3>3
  <2>5. CASE m # 0
    <3>1. m - 1 \in Nat /\ m - 1 < m
      BY <2>2, <2>5
    <3>2. Some(m - 1)
      BY <2>1, <3>1
    <3>3. Q \ {m} \in SUBSET (1 .. m - 1)
      BY <2>2, <2>3, <3>1
    <3>4. PICK f : Enumerates(f, Q \ {m}, m - 1)
      BY <3>2, <3>3
    <3>5. PICK k \in 0 .. m - 1 : f \in [1 .. k -> Q \ {m}]
      BY <3>4 DEF Enumerates
    <3>6. {f[j] : j \in 1 .. k} = Q \ {m} /\ \A i, j \in 1 .. k : i < j => f[i] < f[j]
      BY <3>4, <3>5 DEF Enumerates, Increasing
    <3>7. CASE m \notin Q
      <4>1. Q \ {m} = Q /\ k \in 0 .. m
        BY <3>1, <3>5, <3>7
      <4>2. Enumerates(f, Q, m)
        BY <3>4, <3>5, <4>1 DEF Enumerates
      <4> QED BY <2>3, <4>2
    <3>8. CASE m \in Q
      <4> DEFINE g == [j \in 1 .. k + 1 |-> IF j = k + 1 THEN m ELSE f[j]]
      <4>1. k \in Nat /\ k + 1 \in 0 .. m
        BY <2>2, <3>5
      <4>2. \A j \in 1 .. k + 1 : j # k + 1 => j \in 1 .. k
        BY <4>1
      <4>3. g \in [1 .. k + 1 -> Q]
        BY <3>5, <3>8, <4>2
      <4>4. DOMAIN g = 1 .. k + 1 /\ g[k + 1] = m /\ \A j \in 1 .. k : g[j] = f[j]
        BY <4>1
      <4>5. 1 .. k + 1 = (1 .. k) \union {k + 1}
        BY <4>1
      <4> HIDE DEF g
      <4>6. {g[j] : j \in DOMAIN g} = {f[j] : j \in 1 .. k} \union {m}
        BY <4>4, <4>5
      <4>7. {g[j] : j \in DOMAIN g} = Q
        BY <3>6, <3>8, <4>6
      <4>8. \A j \in 1 .. k : f[j] \in Nat /\ f[j] < m
        <5> SUFFICES ASSUME NEW j \in 1 .. k PROVE f[j] \in Nat /\ f[j] < m
          OBVIOUS
        <5>1. f[j] \in Q \ {m}
          BY <3>5
        <5>2. f[j] \in 1 .. m - 1
          BY <3>3, <5>1
        <5> QED BY <2>2, <5>2
      <4>9. Increasing(g)
        BY <3>6, <4>1, <4>2, <4>4, <4>8 DEF Increasing
      <4>10. Enumerates(g, Q, m)
        BY <4>1, <4>3, <4>7, <4>9 DEF Enumerates
      <4> QED BY <2>3, <4>10
    <3> QED BY <3>7, <3>8
  <2> QED BY <2>4, <2>5
<1>2. Some(n)
  BY <1>1
<1> QED BY <1>2

(* What save takes from the list box is a sequence of numbers that stand   *)
(* in its rows (tedit_person::save).                                       *)
LEMMA NumbersOfRows ==
  ASSUME NEW list \in Rows
  PROVE  /\ NumbersIn(list) \in Seq(Texts)
         /\ \A k \in DOMAIN NumbersIn(list) : \E i \in DOMAIN list :
              NumbersIn(list)[k] = list[i].number /\ list[i].number # ""
<1> DEFINE places == {i \in DOMAIN list : list[i].number # ""}
           order == InOrder(places, Len(list))
<1>0. list \in Seq([number : Texts, cookie : Nat])
  BY DEF Rows
<1>1. Len(list) \in Nat /\ DOMAIN list = 1 .. Len(list)
      /\ \A i \in DOMAIN list : list[i].number \in Texts
  <2>1. Len(list) \in Nat /\ DOMAIN list = 1 .. Len(list)
    BY <1>0, LenProperties
  <2>2. ASSUME NEW i \in DOMAIN list PROVE list[i].number \in Texts
    <3>1. list[i] \in [number : Texts, cookie : Nat]
      BY <1>0, <2>1, ElementOfSeq
    <3> QED BY <3>1
  <2> QED BY <2>1, <2>2
<1>2. \E f : Enumerates(f, places, Len(list))
  BY <1>1, PlacesInOrder
<1>3. order \in UNION {[1 .. k -> places] : k \in 0 .. Len(list)}
  BY <1>2 DEF Enumerates, InOrder
<1>4. NumbersIn(list) = [k \in DOMAIN order |-> list[order[k]].number]
  BY DEF NumbersIn
<1> HIDE DEF order
<1>5. PICK n \in 0 .. Len(list) : order \in [1 .. n -> places]
  BY <1>3
<1>6. n \in Nat
  BY <1>1
<1>7. DOMAIN order = 1 .. n
  BY <1>5
<1>8. \A k \in 1 .. n : order[k] \in places
  BY <1>5
<1>9. \A k \in 1 .. n : order[k] \in DOMAIN list /\ list[order[k]].number # ""
  BY <1>8
<1>10. NumbersIn(list) \in [1 .. n -> Texts]
  BY <1>1, <1>4, <1>7, <1>9
<1>11. NumbersIn(list) \in Seq(Texts)
  BY <1>6, <1>10, IsASeq
<1> QED BY <1>4, <1>7, <1>9, <1>11

(* Erasing a place leaves the other elements (erase_row, erase_person).    *)
LEMMA WithoutKeeps ==
  ASSUME NEW S, NEW s \in Seq(S), NEW i \in DOMAIN s
  PROVE  /\ Without(s, i) \in Seq(S)
         /\ DOMAIN Without(s, i) = 1 .. Len(s) - 1
         /\ \A j \in DOMAIN Without(s, i) : \E k \in DOMAIN s : Without(s, i)[j] = s[k]
<1>1. Len(s) \in Nat /\ DOMAIN s = 1 .. Len(s) /\ i \in 1 .. Len(s)
  OBVIOUS
<1>2. Len(s) - 1 \in Nat
  BY <1>1
<1>3. \A j \in 1 .. Len(s) - 1 : j \in DOMAIN s /\ j + 1 \in DOMAIN s
  BY <1>1
<1>4. Without(s, i) \in [1 .. Len(s) - 1 -> S]
  BY <1>1, <1>3 DEF Without
<1> QED BY <1>2, <1>3, <1>4, IsASeq DEF Without

-----------------------------------------------------------------------------
(* The person editor                                                       *)

(* After did_field_changed the button and temp_person_ follow the screen   *)
(* (tedit_person::can_save).                                               *)
LEMMA FieldChanged ==
  ASSUME NEW boxes \in Boxes, NEW list, PersonTypeOK, did_field_changed(boxes, list)
  PROVE  /\ saveActive' = CanSave(boxes, list) /\ saveActive' \in BOOLEAN
         /\ kept' \in Boxes
         /\ boxes.name # "" => kept' = boxes
<1>1. saveActive' = CanSave(boxes, list)
  BY DEF did_field_changed
<1>2. CanSave(boxes, list) \in BOOLEAN
  BY DEF CanSave
<1>3. kept' = IF boxes.name = "" THEN [kept EXCEPT !.name = ""] ELSE boxes
  BY DEF did_field_changed, Stored
<1>4. kept \in Boxes
  BY DEF PersonTypeOK
<1>5. kept' \in Boxes
  BY <1>3, <1>4 DEF Boxes
<1> QED BY <1>1, <1>2, <1>3, <1>5

(* A new row is its own place (tedit_person::insert_mobile).               *)
LEMMA MobileAdded ==
  ASSUME NEW list \in Rows
  PROVE  /\ WithMobile(list) \in Rows
         /\ (\A i \in DOMAIN list : list[i].cookie = i) =>
              \A i \in DOMAIN WithMobile(list) : WithMobile(list)[i].cookie = i
<1> DEFINE row == [number |-> "", cookie |-> Len(list) + 1]
           R == [number : Texts, cookie : Nat]
<1>1. list \in Seq(R)
  BY DEF Rows
<1>2. Len(list) \in Nat /\ DOMAIN list = 1 .. Len(list)
  BY <1>1, LenProperties
<1>3. row \in R
  BY <1>2 DEF Texts
<1>4. row.cookie = Len(list) + 1
  OBVIOUS
<1>5. WithMobile(list) = Append(list, row)
  BY DEF WithMobile
<1> HIDE DEF row, R
<1>6. /\ Append(list, row) \in Seq(R)
      /\ Len(Append(list, row)) = Len(list) + 1
      /\ \A i \in 1 .. Len(list) : Append(list, row)[i] = list[i]
      /\ Append(list, row)[Len(list) + 1] = row
  BY <1>1, <1>3, AppendProperties
<1>7. DOMAIN Append(list, row) = 1 .. Len(list) + 1
  BY <1>6, LenProperties
<1>8. \A i \in 1 .. Len(list) + 1 : i \in 1 .. Len(list) \/ i = Len(list) + 1
  BY <1>2
<1> QED BY <1>2, <1>4, <1>5, <1>6, <1>7, <1>8 DEF Rows, R

(* Typing and erasing keep the person editor right (did_field_changed,    *)
(* did_number_changed, erase_mobile, float_widget_click_erase).            *)
LEMMA TypeBoxesKeeps ==
  ASSUME NEW boxes \in Boxes, PersonIInv, TypeBoxes(boxes)
  PROVE  PersonIInv'
<1>1. /\ shown' = boxes /\ did_field_changed(boxes, rows)
      /\ rows' = rows /\ longErased' = longErased /\ failed' = failed
  BY DEF TypeBoxes
<1>2. PersonTypeOK
  BY DEF PersonIInv
<1>3. /\ saveActive' = CanSave(boxes, rows) /\ saveActive' \in BOOLEAN
      /\ kept' \in Boxes
      /\ boxes.name # "" => kept' = boxes
  BY <1>1, <1>2, FieldChanged
<1>4. PersonTypeOK'
  BY <1>1, <1>2, <1>3 DEF PersonTypeOK
<1>5. ScreenInv'
  BY <1>1, <1>3 DEF ScreenInv
<1>6. EraseButtonsTrue' /\ OnlyEraseRowFails'
  BY <1>1 DEF PersonIInv, EraseButtonsTrue, OnlyEraseRowFails
<1> QED BY <1>4, <1>5, <1>6 DEF PersonIInv

LEMMA TypeNumberKeeps ==
  ASSUME NEW i \in DOMAIN rows, NEW number \in Texts, PersonIInv, TypeNumber(i, number)
  PROVE  PersonIInv'
<1> DEFINE typed == [rows EXCEPT ![i].number = number]
           list == IF Full(number) /\ i = Len(rows) THEN WithMobile(typed) ELSE typed
<1>1. /\ rows' = list /\ did_field_changed(shown, list)
      /\ shown' = shown /\ longErased' = longErased /\ failed' = failed
  BY DEF TypeNumber
<1>2. PersonTypeOK /\ rows \in Seq([number : Texts, cookie : Nat]) /\ shown \in Boxes
  BY DEF PersonIInv, PersonTypeOK, Rows
<1>3. rows[i] \in [number : Texts, cookie : Nat]
  BY <1>2, LenProperties, ElementOfSeq
<1>4. [rows[i] EXCEPT !.number = number] \in [number : Texts, cookie : Nat]
      /\ [rows[i] EXCEPT !.number = number].cookie = rows[i].cookie
  BY <1>3
<1>5. typed = [rows EXCEPT ![i] = [rows[i] EXCEPT !.number = number]]
  OBVIOUS
<1>6. typed \in Rows
  BY <1>2, <1>4, <1>5, ExceptSeq DEF Rows
<1>7. DOMAIN typed = DOMAIN rows /\ \A j \in DOMAIN rows : typed[j].cookie = rows[j].cookie
  BY <1>2, <1>4, <1>5
<1> HIDE DEF typed
<1>8. list \in Rows
  BY <1>6, MobileAdded
<1>9. (\A j \in DOMAIN rows : rows[j].cookie = j) => \A j \in DOMAIN list : list[j].cookie = j
  BY <1>6, <1>7, MobileAdded
<1> HIDE DEF list
<1>10. /\ saveActive' = CanSave(shown, list) /\ saveActive' \in BOOLEAN
       /\ kept' \in Boxes
       /\ shown.name # "" => kept' = shown
  BY <1>1, <1>2, FieldChanged
<1>11. PersonTypeOK'
  BY <1>1, <1>2, <1>8, <1>10 DEF PersonTypeOK
<1>12. ScreenInv'
  BY <1>1, <1>10 DEF ScreenInv
<1>13. EraseButtonsTrue' /\ OnlyEraseRowFails'
  BY <1>1, <1>9 DEF PersonIInv, EraseButtonsTrue, OnlyEraseRowFails
<1> QED BY <1>11, <1>12, <1>13 DEF PersonIInv

LEMMA RowsRenumbered ==
  ASSUME NEW list \in Rows, NEW at \in DOMAIN list
  PROVE  /\ Renumbered(Without(list, at), at) \in Rows
         /\ (\A i \in DOMAIN list : list[i].cookie = i) =>
              \A i \in DOMAIN Renumbered(Without(list, at), at) :
                Renumbered(Without(list, at), at)[i].cookie = i
<1> DEFINE less == Without(list, at)
           R == [number : Texts, cookie : Nat]
<1>1. list \in Seq(R) /\ Len(list) \in Nat /\ DOMAIN list = 1 .. Len(list)
  BY LenProperties DEF Rows
<1>2. less \in Seq(R) /\ DOMAIN less = 1 .. Len(list) - 1
  BY <1>1, WithoutKeeps
<1>3. Len(list) - 1 \in Nat /\ at \in Nat
  BY <1>1
<1>4. \A i \in DOMAIN less : less[i] \in R /\ i \in Nat
  <2> HIDE DEF less, R
  <2>1. Len(less) \in Nat /\ DOMAIN less = 1 .. Len(less)
    BY <1>2, LenProperties
  <2>2. ASSUME NEW i \in DOMAIN less PROVE less[i] \in R
    BY <1>2, <2>1, <2>2, ElementOfSeq
  <2>3. \A i \in 1 .. Len(list) - 1 : i \in Nat
    BY <1>1
  <2> QED BY <1>2, <2>2, <2>3
<1>5. \A i \in DOMAIN less : i < at => less[i] = list[i] /\ i \in DOMAIN list
  BY <1>1, <1>2, <1>3 DEF Without
<1>6. Renumbered(less, at) =
        [i \in DOMAIN less |-> IF i < at THEN less[i] ELSE [less[i] EXCEPT !.cookie = i]]
  BY DEF Renumbered
<1> HIDE DEF less
<1>7. \A i \in DOMAIN less :
        [less[i] EXCEPT !.cookie = i] \in R /\ [less[i] EXCEPT !.cookie = i].cookie = i
  BY <1>4
<1> HIDE DEF R
<1>8. Renumbered(less, at) \in [1 .. Len(list) - 1 -> R]
  BY <1>2, <1>4, <1>6, <1>7
<1>9. Renumbered(less, at) \in Rows
  BY <1>3, <1>8, IsASeq DEF Rows, R
<1>10. ASSUME \A i \in DOMAIN list : list[i].cookie = i,
              NEW i \in DOMAIN less
       PROVE  Renumbered(less, at)[i].cookie = i
  BY <1>5, <1>6, <1>7, <1>10
<1>11. DOMAIN Renumbered(less, at) = DOMAIN less
  BY <1>6
<1> QED BY <1>9, <1>10, <1>11 DEF less

LEMMA EraseMobileKeeps ==
  ASSUME NEW i \in DOMAIN rows, PersonIInv, failed = {}, EraseMobile(i)
  PROVE  PersonIInv'
<1> DEFINE at == rows[i].cookie
<1>1. PersonTypeOK /\ rows \in Rows /\ shown \in Boxes
  BY DEF PersonIInv, PersonTypeOK
<1>2. rows \in Seq([number : Texts, cookie : Nat])
  BY <1>1 DEF Rows
<1>3. DOMAIN rows = 1 .. Len(rows)
  BY <1>2
<1>4. CASE at \in 1 .. Len(rows)
  <2> DEFINE list == Renumbered(Without(rows, at), at)
  <2>1. /\ rows' = list /\ did_field_changed(shown, rows')
        /\ shown' = shown /\ longErased' = longErased /\ failed' = failed
    BY <1>4 DEF EraseMobile
  <2>2. /\ list \in Rows
        /\ (\A j \in DOMAIN rows : rows[j].cookie = j) =>
             \A j \in DOMAIN list : list[j].cookie = j
    BY <1>1, <1>3, <1>4, RowsRenumbered
  <2> HIDE DEF list
  <2>3. /\ saveActive' = CanSave(shown, rows') /\ saveActive' \in BOOLEAN
        /\ kept' \in Boxes
        /\ shown.name # "" => kept' = shown
    BY <1>1, <2>1, FieldChanged
  <2>4. PersonTypeOK'
    BY <1>1, <2>1, <2>2, <2>3 DEF PersonTypeOK
  <2>5. ScreenInv'
    BY <2>1, <2>3 DEF ScreenInv
  <2>6. EraseButtonsTrue' /\ OnlyEraseRowFails'
    BY <2>1, <2>2 DEF PersonIInv, EraseButtonsTrue, OnlyEraseRowFails
  <2> QED BY <2>4, <2>5, <2>6 DEF PersonIInv
<1>5. CASE at \notin 1 .. Len(rows)
  <2>1. failed' = {"erase_row"} /\ UNCHANGED personVars
    BY <1>5 DEF EraseMobile
  <2>2. longErased
    BY <1>3, <1>5 DEF PersonIInv, EraseButtonsTrue
  <2>3. PersonTypeOK' /\ ScreenInv'
    BY <2>1 DEF PersonIInv, PersonTypeOK, ScreenInv, personVars
  <2>4. EraseButtonsTrue' /\ OnlyEraseRowFails'
    BY <2>1, <2>2 DEF EraseButtonsTrue, OnlyEraseRowFails, personVars
  <2> QED BY <2>3, <2>4 DEF PersonIInv
<1> QED BY <1>4, <1>5

LEMMA LongPressKeeps ==
  ASSUME NEW i \in DOMAIN rows, PersonIInv, LongPressErase(i)
  PROVE  PersonIInv'
<1>1. /\ rows' = Without(rows, i) /\ longErased' = TRUE
      /\ did_field_changed(shown, rows') /\ shown' = shown /\ failed' = failed
  BY DEF LongPressErase
<1>2. PersonTypeOK /\ rows \in Rows /\ shown \in Boxes
  BY DEF PersonIInv, PersonTypeOK
<1>3. rows' \in Rows
  BY <1>1, <1>2, WithoutKeeps DEF Rows
<1>4. /\ saveActive' = CanSave(shown, rows') /\ saveActive' \in BOOLEAN
      /\ kept' \in Boxes
      /\ shown.name # "" => kept' = shown
  BY <1>1, <1>2, FieldChanged
<1>5. PersonTypeOK'
  BY <1>1, <1>2, <1>3, <1>4 DEF PersonTypeOK
<1>6. ScreenInv'
  BY <1>1, <1>4 DEF ScreenInv
<1>7. EraseButtonsTrue' /\ OnlyEraseRowFails'
  BY <1>1 DEF PersonIInv, EraseButtonsTrue, OnlyEraseRowFails
<1> QED BY <1>5, <1>6, <1>7 DEF PersonIInv

(* The rows of a person who is opened are their own places (pre_show).     *)
LEMMA PersonShown ==
  ASSUME NEW person \in PersonRecords, NEW ro \in BOOLEAN,
         ShowPerson(person, ro), failed' = {}
  PROVE  PersonIInv'
<1> DEFINE boxes == [name |-> person.name, money |-> person.money]
           filled == Filled(person.numbers)
           list == IF ro THEN filled ELSE WithMobile(filled)
<1>1. person.numbers \in Seq(Texts) /\ boxes \in Boxes
  BY DEF PersonRecords, Boxes
<1>2. Len(person.numbers) \in Nat /\ DOMAIN person.numbers = 1 .. Len(person.numbers)
  BY <1>1, LenProperties
<1>3. \A i \in DOMAIN person.numbers : person.numbers[i] \in Texts /\ i \in Nat
  BY <1>1, <1>2, ElementOfSeq
<1> DEFINE R == [number : Texts, cookie : Nat]
           n == Len(person.numbers)
<1>a. filled \in [1 .. n -> R]
  BY <1>2, <1>3 DEF Filled
<1>4. \A i \in DOMAIN filled : filled[i].cookie = i
  BY <1>2, <1>3 DEF Filled
<1> HIDE DEF filled
<1>5. filled \in Rows
  <2>1. n \in Nat /\ Rows = Seq(R)
    BY <1>2 DEF Rows
  <2> HIDE DEF n, R
  <2> QED BY <1>a, <2>1, IsASeq
<1>6. list \in Rows /\ \A i \in DOMAIN list : list[i].cookie = i
  BY <1>4, <1>5, MobileAdded
<1>7. /\ rows' = list /\ shown' = boxes /\ kept' = boxes
      /\ saveActive' = CanSave(boxes, list) /\ longErased' = FALSE
  BY DEF ShowPerson, filled
<1> HIDE DEF list, boxes
<1>8. CanSave(boxes, list) \in BOOLEAN
  BY DEF CanSave
<1>9. PersonTypeOK'
  BY <1>1, <1>6, <1>7, <1>8 DEF PersonTypeOK
<1>10. ScreenInv'
  BY <1>7 DEF ScreenInv
<1>11. EraseButtonsTrue' /\ OnlyEraseRowFails'
  BY <1>6, <1>7 DEF EraseButtonsTrue, OnlyEraseRowFails
<1> QED BY <1>9, <1>10, <1>11 DEF PersonIInv

LEMMA PersonClosed ==
  ASSUME ClosePerson, failed' = {}
  PROVE  PersonIInv'
<1>1. rows' = <<>> /\ shown' = EmptyBoxes /\ kept' = EmptyBoxes
      /\ saveActive' = FALSE /\ longErased' = FALSE
  BY DEF ClosePerson
<1>2. EmptyBoxes \in Boxes /\ EmptyBoxes.name = "" /\ <<>> \in Rows /\ DOMAIN <<>> = {}
  BY DEF EmptyBoxes, Boxes, Rows
<1>3. CanSave(EmptyBoxes, <<>>) = FALSE
  BY <1>2 DEF CanSave
<1>4. PersonTypeOK'
  BY <1>1, <1>2 DEF PersonTypeOK
<1>5. ScreenInv'
  <2>1. saveActive' = CanSave(shown', rows')
    BY <1>1, <1>3
  <2>2. shown'.name = ""
    BY <1>1, <1>2
  <2> QED BY <2>1, <2>2 DEF ScreenInv
<1>6. EraseButtonsTrue' /\ OnlyEraseRowFails'
  BY <1>1, <1>2 DEF EraseButtonsTrue, OnlyEraseRowFails
<1> QED BY <1>4, <1>5, <1>6 DEF PersonIInv

LEMMA PersonKept ==
  ASSUME PersonIInv, UNCHANGED <<personVars, failed>>
  PROVE  PersonIInv'
BY DEF PersonIInv, PersonTypeOK, ScreenInv, EraseButtonsTrue, OnlyEraseRowFails, personVars

LEMMA EditPersonKeeps ==
  ASSUME PersonIInv, failed = {}, EditPerson
  PROVE  PersonIInv'
<1>1. CASE \E boxes \in Boxes : TypeBoxes(boxes)
  BY <1>1, TypeBoxesKeeps
<1>2. CASE \E i \in DOMAIN rows : \E number \in Texts : TypeNumber(i, number)
  BY <1>2, TypeNumberKeeps
<1>3. CASE \E i \in DOMAIN rows : EraseMobile(i)
  BY <1>3, EraseMobileKeeps
<1>4. CASE \E i \in DOMAIN rows : LongPressErase(i)
  BY <1>4, LongPressKeeps
<1> QED BY <1>1, <1>2, <1>3, <1>4 DEF EditPerson

-----------------------------------------------------------------------------
(* The loop                                                                *)

Addressee(person) ==
  /\ person.name # ""
  /\ \A k \in DOMAIN person.numbers : person.numbers[k] \in Numbers

(* A list of at most one group: this_group_at.                             *)
LEMMA OneGroup ==
  ASSUME NEW g \in GroupRecords
  PROVE  /\ <<g>> \in Seq(GroupRecords) /\ Len(<<g>>) = 1
         /\ DOMAIN <<g>> = {1} /\ <<g>>[1] = g /\ <<g>> # <<>>
OBVIOUS

LEMMA TheGroup ==
  ASSUME NEW c \in Seq(GroupRecords), Len(c) <= 1, c # <<>>
  PROVE  c[1] \in GroupRecords /\ DOMAIN c = {1} /\ c = <<c[1]>>
<1>1. Len(c) \in Nat /\ DOMAIN c = 1 .. Len(c)
  BY LenProperties
<1>2. Len(c) # 0
  BY EmptySeq
<1>3. Len(c) = 1
  BY <1>1, <1>2
<1>4. c[1] \in GroupRecords
  BY <1>1, <1>3, ElementOfSeq
<1> QED BY <1>1, <1>3, <1>4, SeqEqual, OneGroup

(* The persons of the working copy can be sent to, for they are stored.    *)
LEMMA WorkingCopyValid ==
  ASSUME GroupIInv
  PROVE  \A j \in DOMAIN group.persons : Addressee(group.persons[j])
<1> SUFFICES ASSUME NEW j \in DOMAIN group.persons PROVE Addressee(group.persons[j])
  OBVIOUS
<1>1. contacts # <<>> /\ \E i \in DOMAIN contacts[1].persons : contacts[1].persons[i] = group.persons[j]
  BY DEF GroupIInv, PersonsStored
<1>2. DOMAIN contacts = {1}
  BY <1>1, TheGroup DEF GroupIInv, LoopTypeOK
<1> QED BY <1>1, <1>2 DEF GroupIInv, AddresseesValid, Addressee

LEMMA AddresseesOf ==
  ASSUME NEW g \in GroupRecords, contacts' = <<g>>,
         \A j \in DOMAIN g.persons : Addressee(g.persons[j])
  PROVE  AddresseesValid'
<1>1. DOMAIN contacts' = {1} /\ contacts'[1] = g
  BY OneGroup
<1> QED BY <1>1 DEF AddresseesValid, Addressee

LEMMA GroupKept ==
  ASSUME GroupIInv, UNCHANGED <<screen, contacts, disk, writing, loopVars, personAt>>
  PROVE  GroupIInv'
<1>1. LoopTypeOK'
  BY DEF GroupIInv, LoopTypeOK, loopVars
<1>2. LoopInv'
  BY DEF GroupIInv, LoopInv, loopVars
<1>3. AddresseesValid'
  BY DEF GroupIInv, AddresseesValid
<1>4. PersonsStored'
  BY DEF GroupIInv, PersonsStored, loopVars
<1>5. FileCurrent'
  BY DEF GroupIInv, FileCurrent
<1> QED BY <1>1, <1>2, <1>3, <1>4, <1>5 DEF GroupIInv

LEMMA EmptyGroup == NoGroup \in GroupRecords /\ DOMAIN NoGroup.persons = {}
<1>1. <<>> \in Seq(PersonRecords) /\ DOMAIN <<>> = {}
  OBVIOUS
<1>2. NoGroup = [name |-> "", persons |-> <<>>]
  BY DEF NoGroup
<1> DEFINE Persons == Seq(PersonRecords)
<1>3. NoGroup \in GroupRecords
  <2>1. <<>> \in Persons
    BY <1>1
  <2>3. GroupRecords = [name : {""} \union GroupNames, persons : Persons]
    BY Zenon DEF GroupRecords
  <2> DEFINE none == <<>>
  <2>2. none \in Persons /\ NoGroup = [name |-> "", persons |-> none]
    BY <1>2, <2>1
  <2> HIDE DEF Persons, none
  <2> QED BY <2>2, <2>3
<1> QED BY <1>1, <1>2, <1>3

(* Home with contacts_ and file in agreement, or the file being written.   *)
LEMMA LoopLeft ==
  ASSUME LeaveLoop, contacts' \in Seq(GroupRecords), Len(contacts') <= 1,
         writing' \in BOOLEAN, disk' = IF writing' THEN <<>> ELSE contacts',
         AddresseesValid', personAt' = 0
  PROVE  GroupIInv'
<1>1. /\ screen' = "home" /\ group' = NoGroup /\ isNew' = FALSE /\ readOnly' = FALSE
      /\ dirty' = FALSE /\ contactsChanged' = FALSE
  BY DEF LeaveLoop
<1>2. NoGroup \in GroupRecords /\ DOMAIN NoGroup.persons = {}
  BY EmptyGroup
<1>3. LoopTypeOK' /\ LoopInv'
  BY <1>1, <1>2 DEF LoopTypeOK, LoopInv
<1>4. PersonsStored' /\ FileCurrent'
  BY <1>1, <1>2 DEF PersonsStored, FileCurrent
<1> QED BY <1>3, <1>4 DEF GroupIInv

(* The name a new group gets changes nothing else.                         *)
LEMMA NamedKeeps ==
  ASSUME NEW g \in GroupRecords, NEW new \in BOOLEAN
  PROVE  /\ Named(g, new) \in GroupRecords
         /\ Named(g, new).persons = g.persons
         /\ ~ new => Named(g, new) = g
<1>1. Untitled \in GroupNames
  BY GroupAssumption
<1>2. CASE new
  <2>1. Named(g, new) = [g EXCEPT !.name = Untitled]
    BY <1>2 DEF Named
  <2> QED BY <1>1, <1>2, <2>1 DEF GroupRecords
<1>3. CASE ~ new
  BY <1>3 DEF Named
<1> QED BY <1>2, <1>3

(* The working copy with another name, in the group's dialog.              *)
LEMMA RenamedKeeps ==
  ASSUME GroupIInv, screen # "home", screen' = "group", personAt' = 0,
         group' = Named(group, isNew),
         UNCHANGED <<contacts, disk, writing, isNew, readOnly, dirty, contactsChanged>>
  PROVE  GroupIInv'
<1>1. group \in GroupRecords /\ isNew \in BOOLEAN
  BY DEF GroupIInv, LoopTypeOK
<1>2. group' \in GroupRecords /\ group'.persons = group.persons
      /\ (~ isNew => group' = group)
  BY <1>1, NamedKeeps
<1>3. LoopTypeOK'
  BY <1>2 DEF GroupIInv, LoopTypeOK
<1>4. LoopInv'
  BY <1>2 DEF GroupIInv, LoopInv
<1>5. AddresseesValid' /\ FileCurrent'
  BY DEF GroupIInv, AddresseesValid, FileCurrent
<1>6. PersonsStored'
  BY <1>2 DEF GroupIInv, PersonsStored
<1> QED BY <1>3, <1>4, <1>5, <1>6 DEF GroupIInv

LEMMA OpenGroupKeeps ==
  ASSUME GroupIInv, NEW ro \in BOOLEAN, OpenGroup(ro)
  PROVE  GroupIInv'
<1> DEFINE opened == IF contacts = <<>> THEN NoGroup ELSE contacts[1]
<1>1. /\ ro => contacts # <<>>
      /\ screen' = "group" /\ screen = "home"
      /\ group' = Named(opened, contacts = <<>>)
      /\ isNew' = (contacts = <<>>) /\ readOnly' = ro
      /\ dirty' = FALSE /\ contactsChanged' = FALSE
      /\ contacts' = contacts /\ disk' = disk /\ personAt' = personAt
      /\ ~ writing /\ writing' = writing
  BY DEF OpenGroup, Running
<1>2. LoopTypeOK /\ LoopInv /\ AddresseesValid /\ PersonsStored /\ disk = contacts
  BY <1>1 DEF GroupIInv, FileCurrent
<1>3. NoGroup \in GroupRecords /\ DOMAIN NoGroup.persons = {}
  BY EmptyGroup
<1>4. contacts # <<>> => contacts[1] \in GroupRecords /\ contacts = <<contacts[1]>>
  BY <1>2, TheGroup DEF LoopTypeOK
<1>5. /\ group' \in GroupRecords /\ group'.persons = opened.persons
      /\ contacts # <<>> => group' = contacts[1]
  <2>1. opened \in GroupRecords /\ (contacts = <<>>) \in BOOLEAN
    BY <1>3, <1>4
  <2>2. contacts # <<>> => opened = contacts[1]
    OBVIOUS
  <2> HIDE DEF opened
  <2> QED BY <1>1, <2>1, <2>2, NamedKeeps
<1>6. personAt = 0
  BY <1>1, <1>2 DEF LoopInv
<1>7. LoopTypeOK'
  BY <1>1, <1>2, <1>5, <1>6 DEF LoopTypeOK
<1>8. LoopInv'
  <2>1. contactsChanged' = dirty' /\ ~ contactsChanged' /\ screen' = "group" /\ personAt' = 0
    BY <1>1, <1>6
  <2>2. contacts' = <<>> => isNew'
    BY <1>1
  <2>3. readOnly' => contacts' = <<group'>> /\ ~ isNew' /\ ~ writing'
    BY <1>1, <1>4, <1>5
  <2> QED BY <2>1, <2>2, <2>3 DEF LoopInv
<1>9. PersonsStored'
  <2>1. contacts = <<>> => DOMAIN group'.persons = {}
    BY <1>3, <1>5
  <2>2. contacts # <<>> => contacts' # <<>> /\ contacts'[1] = group'
    BY <1>1, <1>2, <1>5
  <2> QED BY <2>1, <2>2 DEF PersonsStored
<1>10. AddresseesValid' /\ FileCurrent'
  BY <1>1, <1>2 DEF AddresseesValid, FileCurrent
<1> QED BY <1>7, <1>8, <1>9, <1>10 DEF GroupIInv

LEMMA EraseGroupKeeps ==
  ASSUME GroupIInv, EraseGroup
  PROVE  GroupIInv'
<1>1. /\ contacts' = <<>> /\ disk' = <<>> /\ writing' = TRUE /\ screen = "home"
      /\ UNCHANGED <<screen, loopVars, personAt>>
  BY DEF EraseGroup, WritePb
<1>2. group = NoGroup /\ ~ readOnly /\ ~ dirty /\ ~ contactsChanged /\ personAt = 0
  BY <1>1 DEF GroupIInv, LoopInv
<1>3. <<>> \in Seq(GroupRecords) /\ Len(<<>>) <= 1 /\ DOMAIN <<>> = {}
  OBVIOUS
<1>4. LoopTypeOK'
  BY <1>1, <1>3 DEF GroupIInv, LoopTypeOK, loopVars
<1>5. LoopInv'
  BY <1>1, <1>2 DEF GroupIInv, LoopInv, loopVars
<1>6. PersonsStored'
  BY <1>1, <1>2, EmptyGroup DEF PersonsStored, loopVars
<1>7. AddresseesValid' /\ FileCurrent'
  BY <1>1, <1>3 DEF AddresseesValid, FileCurrent
<1> QED BY <1>4, <1>5, <1>6, <1>7 DEF GroupIInv

LEMMA TypeGroupNameKeeps ==
  ASSUME GroupIInv, NEW name \in {""} \union GroupNames, TypeGroupName(name)
  PROVE  GroupIInv'
<1>1. /\ group' = [group EXCEPT !.name = name] /\ screen = "group" /\ ~ readOnly
      /\ UNCHANGED <<screen, contacts, disk, writing, isNew, readOnly, dirty, contactsChanged,
                     personAt>>
  BY DEF TypeGroupName, InGroup
<1>2. group \in GroupRecords
  BY DEF GroupIInv, LoopTypeOK
<1>3. group' \in GroupRecords /\ group'.persons = group.persons
  BY <1>1, <1>2 DEF GroupRecords
<1>4. LoopTypeOK'
  BY <1>1, <1>3 DEF GroupIInv, LoopTypeOK
<1>5. LoopInv'
  BY <1>1 DEF GroupIInv, LoopInv
<1>6. AddresseesValid' /\ FileCurrent'
  BY <1>1 DEF GroupIInv, AddresseesValid, FileCurrent
<1>7. PersonsStored'
  BY <1>1, <1>3 DEF GroupIInv, PersonsStored
<1> QED BY <1>4, <1>5, <1>6, <1>7 DEF GroupIInv

LEMMA ErasePersonKeeps ==
  ASSUME GroupIInv, NEW i \in DOMAIN group.persons, ErasePerson(i)
  PROVE  GroupIInv'
<1> DEFINE fewer == Without(group.persons, i)
<1>1. /\ group' = [group EXCEPT !.persons = fewer] /\ screen = "group" /\ ~ readOnly
      /\ UNCHANGED <<screen, contacts, disk, writing, isNew, readOnly, dirty, contactsChanged,
                     personAt>>
  BY DEF ErasePerson, InGroup
<1>2. group \in GroupRecords /\ group.persons \in Seq(PersonRecords)
  BY DEF GroupIInv, LoopTypeOK, GroupRecords
<1>3. /\ fewer \in Seq(PersonRecords)
      /\ \A j \in DOMAIN fewer : \E k \in DOMAIN group.persons : fewer[j] = group.persons[k]
  BY <1>2, WithoutKeeps
<1> HIDE DEF fewer
<1>4. group' \in GroupRecords /\ group'.persons = fewer
  BY <1>1, <1>2, <1>3 DEF GroupRecords
<1>5. personAt = 0
  BY <1>1 DEF GroupIInv, LoopInv
<1>6. LoopTypeOK'
  BY <1>1, <1>4, <1>5 DEF GroupIInv, LoopTypeOK
<1>7. LoopInv'
  BY <1>1 DEF GroupIInv, LoopInv
<1>8. AddresseesValid' /\ FileCurrent'
  BY <1>1 DEF GroupIInv, AddresseesValid, FileCurrent
<1>9. PersonsStored'
  BY <1>1, <1>3, <1>4 DEF GroupIInv, PersonsStored
<1> QED BY <1>6, <1>7, <1>8, <1>9 DEF GroupIInv

LEMMA OpenPersonKeeps ==
  ASSUME EditorIInv, NEW i \in {0} \union DOMAIN group.persons, OpenPerson(i)
  PROVE  EditorIInv'
<1> DEFINE person == IF i = 0 THEN NoPerson ELSE group.persons[i]
<1>1. /\ ShowPerson(person, readOnly) /\ screen' = "person" /\ personAt' = i
      /\ UNCHANGED <<contacts, disk, writing, loopVars, failed>> /\ failed = {}
      /\ screen = "group" /\ ~ writing
  BY DEF OpenPerson, InGroup, Running
<1>2. GroupIInv /\ readOnly \in BOOLEAN /\ group \in GroupRecords
  BY DEF EditorIInv, GroupIInv, LoopTypeOK
<1>3. group.persons \in Seq(PersonRecords)
  BY <1>2 DEF GroupRecords
<1>4. i # 0 => group.persons[i] \in PersonRecords
  BY <1>3, LenProperties, ElementOfSeq
<1>5. NoPerson \in PersonRecords
  <2>1. <<>> \in Seq(Texts)
    OBVIOUS
  <2> QED BY <2>1 DEF NoPerson, PersonRecords
<1>6. person \in PersonRecords
  BY <1>4, <1>5
<1> HIDE DEF person
<1>7. PersonIInv'
  BY <1>1, <1>2, <1>6, PersonShown
<1>8. LoopTypeOK'
  BY <1>1, <1>2 DEF GroupIInv, LoopTypeOK, loopVars
<1>9. LoopInv'
  BY <1>1, <1>2 DEF GroupIInv, LoopInv, loopVars
<1>10. AddresseesValid' /\ FileCurrent'
  BY <1>1, <1>2 DEF GroupIInv, AddresseesValid, FileCurrent
<1>11. PersonsStored'
  BY <1>1, <1>2 DEF GroupIInv, PersonsStored, loopVars
<1> QED BY <1>7, <1>8, <1>9, <1>10, <1>11 DEF EditorIInv, GroupIInv

LEMMA SaveGroupKeeps ==
  ASSUME EditorIInv, SaveGroup
  PROVE  EditorIInv'
<1> DEFINE differs == (isNew /\ ~contactsChanged) \/ contacts # <<group>>
<1>1. /\ contacts' = IF differs THEN <<group>> ELSE contacts
      /\ disk' = IF differs THEN <<>> ELSE disk
      /\ writing' = (IF differs THEN TRUE ELSE writing) /\ ~ writing
      /\ failed' = Broken("changed_dirty", contactsChanged => dirty)
                   \union Broken("group_at", (isNew => contactsChanged) => contacts # <<>>)
      /\ LeaveLoop /\ UNCHANGED <<personAt, personVars>>
      /\ failed = {} /\ screen = "group"
  BY DEF SaveGroup, WritePb, InGroup, Running
<1>2. /\ GroupIInv /\ PersonIInv /\ group \in GroupRecords /\ disk = contacts
      /\ writing \in BOOLEAN
  BY <1>1 DEF EditorIInv, GroupIInv, LoopTypeOK, FileCurrent
<1>3. /\ contacts' = <<group>>
      /\ writing' \in BOOLEAN /\ disk' = IF writing' THEN <<>> ELSE contacts'
  BY <1>1, <1>2
<1>4. contactsChanged => dirty
  BY <1>2 DEF GroupIInv, LoopInv
<1>5. (isNew => contactsChanged) => contacts # <<>>
  BY <1>1, <1>2 DEF GroupIInv, LoopInv
<1>6. failed' = {}
  BY <1>1, <1>4, <1>5 DEF Broken
<1>7. PersonIInv'
  BY <1>1, <1>2, <1>6, PersonKept
<1>8. contacts' \in Seq(GroupRecords) /\ Len(contacts') <= 1
  BY <1>2, <1>3, OneGroup
<1>9. AddresseesValid'
  BY <1>1, <1>2, <1>3, WorkingCopyValid, AddresseesOf
<1>10. personAt' = 0
  BY <1>1, <1>2 DEF GroupIInv, LoopInv
<1>11. GroupIInv'
  BY <1>1, <1>3, <1>8, <1>9, <1>10, LoopLeft
<1> QED BY <1>7, <1>11 DEF EditorIInv

LEMMA LeaveGroupKeeps ==
  ASSUME EditorIInv, LeaveGroup
  PROVE  EditorIInv'
<1>1. /\ LeaveLoop /\ screen = "group"
      /\ UNCHANGED <<contacts, disk, writing, personAt, personVars, failed>>
  BY DEF LeaveGroup, InGroup
<1>2. PersonIInv'
  BY <1>1, PersonKept DEF EditorIInv
<1>3. /\ contacts' \in Seq(GroupRecords) /\ Len(contacts') <= 1
      /\ writing' \in BOOLEAN /\ disk' = IF writing' THEN <<>> ELSE contacts'
  BY <1>1 DEF EditorIInv, GroupIInv, LoopTypeOK, FileCurrent
<1>4. AddresseesValid'
  BY <1>1 DEF EditorIInv, GroupIInv, AddresseesValid
<1>5. personAt' = 0
  BY <1>1 DEF EditorIInv, GroupIInv, LoopInv
<1> QED BY <1>1, <1>2, <1>3, <1>4, <1>5, LoopLeft DEF EditorIInv

LEMMA LeavePersonKeeps ==
  ASSUME EditorIInv, LeavePerson
  PROVE  EditorIInv'
<1>1. /\ screen' = "group" /\ personAt' = 0 /\ ClosePerson /\ screen = "person"
      /\ group' = Named(group, isNew) /\ failed' = failed /\ failed = {}
      /\ UNCHANGED <<contacts, disk, writing, isNew, readOnly, dirty, contactsChanged>>
  BY DEF LeavePerson, InPerson, Running
<1>2. PersonIInv'
  BY <1>1, PersonClosed
<1>3. GroupIInv'
  BY <1>1, RenamedKeeps DEF EditorIInv
<1> QED BY <1>2, <1>3 DEF EditorIInv

LEMMA OcrKeeps ==
  ASSUME EditorIInv, Ocr
  PROVE  EditorIInv'
<1>1. /\ screen = "group" /\ group' = Named(group, isNew)
      /\ UNCHANGED <<screen, contacts, disk, writing, isNew, readOnly, dirty, contactsChanged,
                     personAt>>
      /\ UNCHANGED <<personVars, failed>>
  BY DEF Ocr, InGroup
<1>2. personAt = 0
  BY <1>1 DEF EditorIInv, GroupIInv, LoopInv
<1>3. GroupIInv'
  BY <1>1, <1>2, RenamedKeeps DEF EditorIInv
<1> QED BY <1>1, <1>3, PersonKept DEF EditorIInv

(* The person who is saved has a name and numbers that can be sent to: the *)
(* save button was active.                                                 *)
LEMMA SavedPersonValid ==
  ASSUME PersonIInv, saveActive
  PROVE  PersonOnScreen \in PersonRecords /\ Addressee(PersonOnScreen)
<1> DEFINE numbers == NumbersIn(rows)
<1>1. CanSave(shown, rows) /\ kept = shown
  <2>1. CanSave(shown, rows)
    BY DEF PersonIInv, ScreenInv
  <2> QED BY <2>1 DEF PersonIInv, ScreenInv, CanSave
<1>2. shown.name # "" /\ kept \in Boxes /\ rows \in Rows
      /\ \A i \in DOMAIN rows : rows[i].number \in {""} \union Numbers
  BY <1>1 DEF PersonIInv, PersonTypeOK, CanSave, RowOk
<1>3. /\ numbers \in Seq(Texts)
      /\ \A k \in DOMAIN numbers : \E i \in DOMAIN rows :
           numbers[k] = rows[i].number /\ rows[i].number # ""
  BY <1>2, NumbersOfRows
<1>4. PersonOnScreen = [name |-> kept.name, money |-> kept.money, numbers |-> numbers]
  BY DEF PersonOnScreen
<1> HIDE DEF numbers
<1>5. PersonOnScreen \in PersonRecords
  BY <1>2, <1>3, <1>4 DEF PersonRecords, Boxes
<1>6. \A k \in DOMAIN numbers : numbers[k] \in Numbers
  BY <1>2, <1>3
<1> QED BY <1>1, <1>2, <1>4, <1>5, <1>6 DEF Addressee

LEMMA PersonPutInPlace ==
  ASSUME GroupIInv, NEW person \in PersonRecords, Addressee(person)
  PROVE  /\ WithPerson(person) \in GroupRecords
         /\ \A j \in DOMAIN WithPerson(person).persons : Addressee(WithPerson(person).persons[j])
<1> DEFINE old == group.persons
<1>1. group \in GroupRecords /\ old \in Seq(PersonRecords)
      /\ personAt \in {0} \union DOMAIN group.persons
  BY DEF GroupIInv, LoopTypeOK, GroupRecords
<1>2. \A j \in DOMAIN old : Addressee(old[j])
  BY WorkingCopyValid
<1>3. Len(old) \in Nat /\ DOMAIN old = 1 .. Len(old)
  BY <1>1, LenProperties
<1> HIDE DEF old
<1>4. CASE personAt = 0
  <2> DEFINE all == Append(old, person)
  <2>1. /\ all \in Seq(PersonRecords)
        /\ Len(all) = Len(old) + 1
        /\ \A i \in 1 .. Len(old) : all[i] = old[i]
        /\ all[Len(old) + 1] = person
    BY <1>1, AppendProperties
  <2>2. DOMAIN all = 1 .. Len(old) + 1
    BY <2>1, LenProperties
  <2>3. WithPerson(person) = [group EXCEPT !.persons = all]
    BY <1>4 DEF WithPerson, old
  <2> HIDE DEF all
  <2>4. WithPerson(person) \in GroupRecords /\ WithPerson(person).persons = all
    BY <1>1, <2>1, <2>3 DEF GroupRecords
  <2>5. \A i \in DOMAIN all : i \in DOMAIN old \/ i = Len(old) + 1
    BY <1>3, <2>2
  <2>6. \A i \in DOMAIN all : Addressee(all[i])
    BY <1>2, <1>3, <2>1, <2>5
  <2> QED BY <2>4, <2>6
<1>5. CASE personAt # 0
  <2> DEFINE all == [old EXCEPT ![personAt] = person]
  <2>1. personAt \in DOMAIN old
    BY <1>1, <1>5 DEF old
  <2>2. all \in Seq(PersonRecords) /\ DOMAIN all = DOMAIN old
        /\ \A i \in DOMAIN old : all[i] = IF i = personAt THEN person ELSE old[i]
    BY <1>1, <1>3, <2>1, ExceptSeq
  <2>3. WithPerson(person) = [group EXCEPT !.persons = all]
    BY <1>5 DEF WithPerson, old
  <2> HIDE DEF all
  <2>4. WithPerson(person) \in GroupRecords /\ WithPerson(person).persons = all
    BY <1>1, <2>2, <2>3 DEF GroupRecords
  <2>5. \A i \in DOMAIN all : Addressee(all[i])
    BY <1>2, <2>2
  <2> QED BY <2>4, <2>5
<1> QED BY <1>4, <1>5

LEMMA SavePersonKeeps ==
  ASSUME EditorIInv, SavePerson
  PROVE  EditorIInv'
<1> DEFINE new == WithPerson(PersonOnScreen)
<1>1. /\ failed = {} /\ screen = "person" /\ ~ readOnly /\ saveActive
      /\ screen' = "group" /\ personAt' = 0 /\ ClosePerson
      /\ isNew' = isNew /\ readOnly' = readOnly /\ ~ writing
  BY DEF SavePerson, InPerson, Running
<1>2. PersonIInv /\ GroupIInv
  BY DEF EditorIInv
<1>3. PersonOnScreen \in PersonRecords /\ Addressee(PersonOnScreen)
  BY <1>1, <1>2, SavedPersonValid
<1>4. new \in GroupRecords /\ \A j \in DOMAIN new.persons : Addressee(new.persons[j])
  BY <1>1, <1>2, <1>3, PersonPutInPlace
<1>5. LoopTypeOK /\ LoopInv /\ AddresseesValid /\ PersonsStored /\ disk = contacts
  BY <1>1, <1>2 DEF GroupIInv, FileCurrent
<1>6. CASE new = group
  <2>1. UNCHANGED <<contacts, disk, writing, dirty, contactsChanged, failed>>
    BY <1>6 DEF SavePerson
  <2>2. group' = Named(group, isNew)
    BY <1>6 DEF SavePerson
  <2>3. PersonIInv'
    BY <1>1, <2>1, PersonClosed
  <2>4. GroupIInv'
    BY <1>1, <1>2, <2>1, <2>2, RenamedKeeps
  <2> QED BY <2>3, <2>4 DEF EditorIInv
<1>7. CASE new # group
  <2>1. /\ group' = Named(new, isNew) /\ contacts' = <<new>>
        /\ disk' = <<>> /\ writing' = TRUE
        /\ dirty' = TRUE /\ contactsChanged' = TRUE
        /\ failed' = IF contacts = <<>> THEN Broken("insert_group", isNew /\ ~dirty) ELSE {}
    BY <1>7 DEF SavePerson, StoreGroup, WritePb
  <2> HIDE DEF new
  <2>2. contacts = <<>> => isNew /\ ~ dirty
    BY <1>1, <1>5 DEF LoopInv
  <2>3. failed' = {}
    BY <2>1, <2>2 DEF Broken
  <2>4. PersonIInv'
    BY <1>1, <2>3, PersonClosed
  <2>5. /\ contacts' \in Seq(GroupRecords) /\ Len(contacts') <= 1
        /\ contacts' # <<>> /\ contacts'[1] = new
    BY <1>4, <2>1, OneGroup
  <2>10. group' \in GroupRecords /\ group'.persons = new.persons
    BY <1>4, <1>5, <2>1, NamedKeeps DEF LoopTypeOK
  <2>6. LoopTypeOK'
    BY <1>1, <1>5, <2>1, <2>5, <2>10 DEF LoopTypeOK
  <2>7. LoopInv'
    BY <1>1, <1>5, <2>1, <2>5 DEF LoopInv
  <2>8. AddresseesValid'
    BY <1>4, <2>1, AddresseesOf
  <2>9. PersonsStored' /\ FileCurrent'
    BY <2>1, <2>5, <2>10 DEF PersonsStored, FileCurrent
  <2> QED BY <2>4, <2>6, <2>7, <2>8, <2>9 DEF EditorIInv, GroupIInv
<1> QED BY <1>6, <1>7

LEMMA RestartKeeps ==
  ASSUME EditorIInv, Restart
  PROVE  EditorIInv'
<1>1. contacts' = disk /\ disk' = disk /\ LeaveLoop /\ personAt' = 0
      /\ ClosePerson /\ failed' = {} /\ writing' = FALSE
  BY DEF Restart
<1>2. disk = <<>> \/ disk = contacts
  BY DEF EditorIInv, GroupIInv, FileCurrent
<1>3. contacts \in Seq(GroupRecords) /\ Len(contacts) <= 1 /\ AddresseesValid
  BY DEF EditorIInv, GroupIInv, LoopTypeOK
<1>4. CASE disk = contacts
  <2>1. contacts' = contacts /\ disk' = contacts'
    BY <1>1, <1>4
  <2>2. AddresseesValid'
    BY <1>3, <2>1 DEF AddresseesValid
  <2> QED BY <1>1, <1>3, <2>1, <2>2, LoopLeft, PersonClosed DEF EditorIInv
<1>5. CASE disk = <<>>
  <2>1. <<>> \in Seq(GroupRecords) /\ Len(<<>>) <= 1 /\ DOMAIN <<>> = {}
    OBVIOUS
  <2>2. contacts' = <<>> /\ disk' = <<>>
    BY <1>1, <1>5
  <2>3. AddresseesValid'
    BY <2>1, <2>2 DEF AddresseesValid
  <2>4. GroupIInv'
    BY <1>1, <2>1, <2>2, <2>3, LoopLeft
  <2> QED BY <1>1, <2>4, PersonClosed DEF EditorIInv
<1> QED BY <1>2, <1>4, <1>5

LEMMA FinishWriteKeeps ==
  ASSUME EditorIInv, FinishWrite
  PROVE  EditorIInv'
<1>1. /\ disk' = contacts /\ writing /\ writing' = FALSE
      /\ UNCHANGED <<screen, contacts, loopVars, personAt, personVars, failed>>
  BY DEF FinishWrite
<1>2. PersonIInv'
  BY <1>1, PersonKept DEF EditorIInv
<1>3. LoopTypeOK' /\ LoopInv'
  BY <1>1 DEF EditorIInv, GroupIInv, LoopTypeOK, LoopInv, loopVars
<1>4. AddresseesValid' /\ PersonsStored' /\ FileCurrent'
  BY <1>1 DEF EditorIInv, GroupIInv, AddresseesValid, PersonsStored, FileCurrent, loopVars
<1> QED BY <1>2, <1>3, <1>4 DEF EditorIInv, GroupIInv

LEMMA InitEditor == Init => EditorIInv
<1> SUFFICES ASSUME Init PROVE EditorIInv
  OBVIOUS
<1>1. EmptyBoxes \in Boxes /\ EmptyBoxes.name = "" /\ <<>> \in Rows /\ DOMAIN <<>> = {}
  BY DEF EmptyBoxes, Boxes, Rows
<1>2. CanSave(EmptyBoxes, <<>>) = FALSE
  BY <1>1 DEF CanSave
<1>3. PersonTypeOK /\ EraseButtonsTrue /\ OnlyEraseRowFails
  <2>1. PersonTypeOK
    BY <1>1 DEF Init, PersonTypeOK
  <2>2. failed = {} /\ DOMAIN rows = {}
    BY <1>1 DEF Init
  <2> QED BY <2>1, <2>2 DEF EraseButtonsTrue, OnlyEraseRowFails
<1>4. ScreenInv
  <2>1. saveActive = CanSave(shown, rows)
    BY <1>2 DEF Init
  <2>2. shown.name = ""
    BY <1>1 DEF Init
  <2> QED BY <2>1, <2>2 DEF ScreenInv
<1>5. <<>> \in Seq(GroupRecords) /\ Len(<<>>) <= 1
  OBVIOUS
<1>6. LoopTypeOK
  BY <1>5, EmptyGroup DEF Init, LoopTypeOK
<1>7. LoopInv
  BY DEF Init, LoopInv
<1>8. AddresseesValid /\ FileCurrent
  BY <1>1 DEF Init, AddresseesValid, FileCurrent
<1>9. PersonsStored
  BY EmptyGroup DEF Init, PersonsStored
<1> QED BY <1>3, <1>4, <1>6, <1>7, <1>8, <1>9 DEF EditorIInv, PersonIInv, GroupIInv

LEMMA NextEditor == EditorIInv /\ [Next]_vars => EditorIInv'
<1> SUFFICES ASSUME EditorIInv, [Next]_vars PROVE EditorIInv'
  OBVIOUS
<1>0. PersonIInv /\ GroupIInv
  BY DEF EditorIInv
<1>1. ASSUME NEW ro \in BOOLEAN, OpenGroup(ro) PROVE EditorIInv'
  <2>1. UNCHANGED <<personVars, failed>>
    BY <1>1 DEF OpenGroup
  <2> QED BY <1>0, <1>1, <2>1, OpenGroupKeeps, PersonKept DEF EditorIInv
<1>2. CASE EraseGroup
  <2>1. UNCHANGED <<personVars, failed>>
    BY <1>2 DEF EraseGroup
  <2> QED BY <1>0, <1>2, <2>1, EraseGroupKeeps, PersonKept DEF EditorIInv
<1>3. ASSUME NEW name \in {""} \union GroupNames, TypeGroupName(name) PROVE EditorIInv'
  <2>1. UNCHANGED <<personVars, failed>>
    BY <1>3 DEF TypeGroupName
  <2> QED BY <1>0, <1>3, <2>1, TypeGroupNameKeeps, PersonKept DEF EditorIInv
<1>4. ASSUME NEW i \in DOMAIN group.persons, ErasePerson(i) PROVE EditorIInv'
  <2>1. UNCHANGED <<personVars, failed>>
    BY <1>4 DEF ErasePerson
  <2> QED BY <1>0, <1>4, <2>1, ErasePersonKeeps, PersonKept DEF EditorIInv
<1>5. ASSUME NEW i \in {0} \union DOMAIN group.persons, OpenPerson(i) PROVE EditorIInv'
  BY <1>5, OpenPersonKeeps
<1>6. CASE SaveGroup
  BY <1>6, SaveGroupKeeps
<1>7. CASE LeaveGroup
  BY <1>7, LeaveGroupKeeps
<1>8. CASE TypeOrErase
  <2>1. /\ failed = {} /\ EditPerson
        /\ UNCHANGED <<screen, contacts, disk, writing, loopVars, personAt>>
    BY <1>8 DEF TypeOrErase, InPerson, Running
  <2> QED BY <1>0, <2>1, EditPersonKeeps, GroupKept DEF EditorIInv
<1>9. CASE SavePerson
  BY <1>9, SavePersonKeeps
<1>10. CASE LeavePerson
  BY <1>10, LeavePersonKeeps
<1>11. CASE Restart
  BY <1>11, RestartKeeps
<1>13. CASE Ocr
  BY <1>13, OcrKeeps
<1>14. CASE FinishWrite
  BY <1>14, FinishWriteKeeps
<1>12. CASE UNCHANGED vars
  BY <1>0, <1>12, PersonKept, GroupKept DEF vars, EditorIInv
<1> QED
  BY <1>1, <1>2, <1>3, <1>4, <1>5, <1>6, <1>7, <1>8, <1>9, <1>10, <1>11, <1>12, <1>13,
     <1>14 DEF Next

(* Whatever the user types, erases, saves and leaves, and whenever the     *)
(* program dies, in the middle of a write too, the two editors and the     *)
(* loop between them keep the invariant: a death in the middle leaves an   *)
(* empty list and nothing that disagrees with it (do_gameloop, tedit_group,*)
(* tedit_person, write_pb).                                                *)
THEOREM EditorInvariance == Spec => []EditorIInv
BY InitEditor, NextEditor, PTL DEF Spec

(* A person is saved as shown and only if messages can be sent to him and  *)
(* is in the file as soon as the write that follows is over.  Until then   *)
(* the file is empty, otherwise it is what the memory holds.  The erase    *)
(* buttons are right until a row has been erased from the long-press menu. *)
THEOREM EditorSafety ==
  Spec => [](/\ SavesWhatIsShown /\ AddresseesValid /\ PersonsSaved
             /\ FileCurrent /\ EraseButtonsTrue /\ OnlyEraseRowFails)
<1>1. EditorIInv => /\ SavesWhatIsShown /\ AddresseesValid /\ PersonsSaved
                    /\ FileCurrent /\ EraseButtonsTrue /\ OnlyEraseRowFails
  <2> SUFFICES ASSUME EditorIInv
               PROVE  /\ SavesWhatIsShown /\ AddresseesValid /\ PersonsSaved
                      /\ FileCurrent /\ EraseButtonsTrue /\ OnlyEraseRowFails
    OBVIOUS
  <2>1. saveActive = CanSave(shown, rows) /\ (shown.name # "" => kept = shown)
    BY DEF EditorIInv, PersonIInv, ScreenInv
  <2>2. SavesWhatIsShown
    BY <2>1 DEF SavesWhatIsShown, CanSave
  <2>3. PersonsSaved
    BY DEF EditorIInv, GroupIInv, PersonsStored, FileCurrent, PersonsSaved
  <2> QED BY <2>2, <2>3 DEF EditorIInv, PersonIInv, GroupIInv
<1> QED BY <1>1, EditorInvariance, PTL

(* A group that is open only to be looked at is not changed, neither in    *)
(* the dialogs nor in contacts_ nor in the file (read_only).               *)
THEOREM ReadOnlyHolds == Spec => ReadOnlyChangesNothing
<1> DEFINE Kept == readOnly => /\ UNCHANGED <<contacts, disk>>
                               /\ group' # group => screen' = "home"
<1>1. EditorIInv /\ [Next]_vars => [Kept]_vars
  <2> SUFFICES ASSUME EditorIInv, Next, readOnly
               PROVE  UNCHANGED <<contacts, disk>> /\ (group' # group => screen' = "home")
    OBVIOUS
  <2>1. contacts = <<group>> /\ disk = contacts /\ ~ isNew /\ (screen = "home" => ~ readOnly)
        /\ contactsChanged \in BOOLEAN /\ ~ writing
    BY DEF EditorIInv, GroupIInv, LoopTypeOK, LoopInv, FileCurrent
  <2>2. ASSUME NEW ro \in BOOLEAN, OpenGroup(ro) PROVE FALSE
    BY <2>1, <2>2 DEF OpenGroup
  <2>3. CASE EraseGroup
    BY <2>1, <2>3 DEF EraseGroup
  <2>4. ASSUME NEW name \in {""} \union GroupNames, TypeGroupName(name) PROVE FALSE
    BY <2>4 DEF TypeGroupName
  <2>5. ASSUME NEW i \in DOMAIN group.persons, ErasePerson(i) PROVE FALSE
    BY <2>5 DEF ErasePerson
  <2>6. ASSUME NEW i \in {0} \union DOMAIN group.persons, OpenPerson(i)
        PROVE  UNCHANGED <<contacts, disk, group>>
    BY <2>6 DEF OpenPerson, loopVars
  <2>7. CASE SaveGroup
    BY <2>1, <2>7 DEF SaveGroup, LeaveLoop
  <2>8. CASE LeaveGroup
    BY <2>8 DEF LeaveGroup, LeaveLoop
  <2>9. CASE TypeOrErase \/ SavePerson
    BY <2>9 DEF TypeOrErase, SavePerson
  <2>10. CASE LeavePerson
    BY <2>1, <2>10 DEF LeavePerson, Named
  <2>12. CASE Ocr
    BY <2>1, <2>12 DEF Ocr, Named
  <2>11. CASE Restart
    BY <2>1, <2>11 DEF Restart, LeaveLoop
  <2>13. CASE FinishWrite
    BY <2>1, <2>13 DEF FinishWrite
  <2> QED
    BY <2>2, <2>3, <2>4, <2>5, <2>6, <2>7, <2>8, <2>9, <2>10, <2>11, <2>12,
       <2>13 DEF Next
<1> QED BY <1>1, EditorInvariance, PTL DEF Spec, ReadOnlyChangesNothing

(* The name of a group that is being edited is not lost on the way to a    *)
(* person and back, whether he is saved or not (do_gameloop).              *)
THEOREM NameStays == Spec => NameKept
<1> DEFINE Kept == {screen, screen'} = {"group", "person"} /\ ~ isNew => group'.name = group.name
<1>1. EditorIInv /\ [Next]_vars => [Kept]_vars
  <2> SUFFICES ASSUME EditorIInv, Next, {screen, screen'} = {"group", "person"}, ~ isNew
               PROVE  group'.name = group.name
    OBVIOUS
  <2>0. screen # screen' /\ screen # "home" /\ screen' # "home"
    OBVIOUS
  <2>1. group \in GroupRecords
    BY DEF EditorIInv, GroupIInv, LoopTypeOK
  <2>2. ASSUME NEW ro \in BOOLEAN, OpenGroup(ro) PROVE FALSE
    BY <2>0, <2>2 DEF OpenGroup
  <2>3. CASE EraseGroup \/ Ocr \/ TypeOrErase \/ FinishWrite
    BY <2>0, <2>3 DEF EraseGroup, Ocr, TypeOrErase, FinishWrite
  <2>4. ASSUME NEW name \in {""} \union GroupNames, TypeGroupName(name) PROVE FALSE
    BY <2>0, <2>4 DEF TypeGroupName
  <2>5. ASSUME NEW i \in DOMAIN group.persons, ErasePerson(i) PROVE FALSE
    BY <2>0, <2>5 DEF ErasePerson
  <2>6. ASSUME NEW i \in {0} \union DOMAIN group.persons, OpenPerson(i)
        PROVE  group' = group
    BY <2>6 DEF OpenPerson, loopVars
  <2>7. CASE SaveGroup \/ LeaveGroup \/ Restart
    BY <2>0, <2>7 DEF SaveGroup, LeaveGroup, Restart, LeaveLoop
  <2>8. CASE LeavePerson
    BY <2>8 DEF LeavePerson, Named
  <2>9. CASE SavePerson
    <3>1. group' = WithPerson(PersonOnScreen)
      BY <2>9 DEF SavePerson, Named
    <3> QED BY <2>1, <3>1 DEF WithPerson, GroupRecords
  <2> QED
    BY <2>2, <2>3, <2>4, <2>5, <2>6, <2>7, <2>8, <2>9 DEF Next
<1> QED BY <1>1, EditorInvariance, PTL DEF Spec, NameKept
=============================================================================
