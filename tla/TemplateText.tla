---------------------------- MODULE TemplateText ----------------------------
(***************************************************************************)
(* The text of a template.  The user types characters and inserts fields   *)
(* of the addressee; the text is stored with every field replaced by a     *)
(* marker ("%" and two digits) and a list of parameters that says which    *)
(* field a marker stands for.  The editor shows the fields again (preview) *)
(* and a message is produced by replacing each marker by the value the     *)
(* addressee has for the field.  What makes this hard is that a user may   *)
(* type the characters of a marker, that a value may contain them, and     *)
(* that a field may be erased, and made again, while templates use it.     *)
(*                                                                         *)
(* A text is a sequence of tokens: characters and, in the editor, field    *)
(* ids (the highlighted item the editor keeps as one object).  The digits  *)
(* are a constant, so that a model may have two of them instead of ten.    *)
(* One template is modelled, the first: the editor and the conversions of  *)
(* main.cpp never look at another one, and only the first one is locked    *)
(* while the task is in use.                                               *)
(***************************************************************************)
EXTENDS Naturals, FiniteSets, SequencesExt

CONSTANTS
  Digits,       \* the digits, in order: "0" first
  Letters,      \* characters that are neither a digit nor "%"
  Fixed,        \* tparameters: the fields every person has
  UserFields,   \* ids of the fields a user may make
  Persons,      \* addressees: what each holds for every field
  MaxText       \* bound: tokens of a text

Fields == Fixed \union UserFields
Chars == ToSet(Digits) \union Letters \union {"%"}
Base == Len(Digits)

ASSUME TextAssumption ==
  /\ Digits \in Seq(STRING) /\ IsInjective(Digits) /\ Base > 1
  /\ "%" \notin ToSet(Digits)
  /\ Fields \intersect Chars = {} /\ Fixed \intersect UserFields = {}
  /\ Persons \subseteq [Fields -> Seq(Chars)]
  /\ MaxText \in Nat

VARIABLES
  existing,   \* contacts.bh_fields: the user's fields that exist
  template,   \* <<>> or <<t>>: the template, [message, params]
  inUse,      \* not can_edit_contacts_or_templates()
  typed       \* history: the text in the editor when it was last saved

vars == <<existing, template, inUse, typed>>

-----------------------------------------------------------------------------
(* Markers *)

IsDigit(c) == c \in ToSet(Digits)

MarkerAt(text, i) ==
  /\ i + 2 <= Len(text)
  /\ text[i] = "%" /\ IsDigit(text[i + 1]) /\ IsDigit(text[i + 2])

\* The text cut as the search for %[0-9]{2} cuts it: from the left, each
\* marker a piece of its own, everything else token by token.
Pieces(text) ==
  LET from[i \in 1 .. Len(text) + 1] ==
        IF i > Len(text) THEN <<>>
        ELSE LET next == IF MarkerAt(text, i) THEN i + 3 ELSE i + 1
             IN  <<SubSeq(text, i, next - 1)>> \o from[next]
  IN  from[1]

IsMarker(piece) == Len(piece) = 3

\* atoi of the two digits
Value(c) == (CHOOSE i \in DOMAIN Digits : Digits[i] = c) - 1
Index(marker) == Base * Value(marker[2]) + Value(marker[3])

\* "%" << setfill('0') << setw(2): a third digit appears when two are too few
Digit(n) == Digits[(n % Base) + 1]
Marker(n) ==
  <<"%">> \o (IF n \div Base < Base THEN <<>> ELSE <<Digit(n \div (Base * Base))>>)
          \o <<Digit(n \div Base), Digit(n)>>

template_extract_parameters(message) ==
  {Index(piece) : piece \in {x \in ToSet(Pieces(message)) : IsMarker(x)}}

\* A marker without a parameter stays as it is; what a parameter puts in is
\* not searched again.
Replaced(piece, parameters) ==
  IF IsMarker(piece) /\ Index(piece) \in DOMAIN parameters
  THEN parameters[Index(piece)] ELSE piece

\* Mutant: the parameters are replaced one after the other in the whole text,
\* so that what one puts in is searched for the next.
MessageByReplacing(message, parameters) ==
  LET once(text, n) ==
        LET pieces == Pieces(text)
        IN  FlattenSeq([i \in DOMAIN pieces |->
              IF IsMarker(pieces[i]) /\ Index(pieces[i]) = n
              THEN parameters[n] ELSE pieces[i]])
  IN  FoldLeft(once, message, SetToSortSeq(DOMAIN parameters, <))

template_generate_message(message, parameters) ==
  LET pieces == Pieces(message)
  IN  FlattenSeq([i \in DOMAIN pieces |-> Replaced(pieces[i], parameters)])

-----------------------------------------------------------------------------
(* From the stored template to a text *)

IndexesUsed(t) ==
  template_extract_parameters(t.message)
    \intersect {t.params[k].index : k \in DOMAIN t.params}

\* the field of the first parameter that has the index
FieldAt(t, n) ==
  t.params[SelectInSeq(t.params, LAMBDA param : param.index = n)].field_id

\* field_id_existed
Existed(f) == f \in Fixed \union existing

\* A field that is gone has an empty name, and so an empty item.
Item(f) == IF Existed(f) THEN <<f>> ELSE <<>>

template_generate_preview(t) ==
  template_generate_message(t.message,
    [n \in IndexesUsed(t) |-> Item(FieldAt(t, n))])

template_generate_message2(t, person) ==
  template_generate_message(t.message,
    [n \in IndexesUsed(t) |-> person[FieldAt(t, n)]])

-----------------------------------------------------------------------------
(* From the editor's text to the template: tedit_template::save *)

\* the fields of the text that exist, in the order of their first item
UsedParams(label) ==
  LET first == {i \in DOMAIN label :
                  /\ label[i] \in Fields /\ Existed(label[i])
                  /\ \A j \in 1 .. i - 1 : label[j] # label[i]}
      place(k) == CHOOSE i \in first : Cardinality({j \in first : j <= i}) = k
  IN  [k \in 1 .. Cardinality(first) |-> label[place(k)]]

\* Mutant: the indices are counted from 0 whatever the text contains.
ParamIndexFromZero(k, fade) == k - 1

\* The k-th index that is not in fade, the markers the user typed himself.
ParamIndex(k, fade) ==
  CHOOSE n \in 0 .. k + Cardinality(fade) :
    n \notin fade /\ Cardinality((0 .. n) \ fade) = k

Save(label) ==
  LET fade == template_extract_parameters(label)
      used == UsedParams(label)
      index(k) == ParamIndex(k, fade)
      written(x) ==
        CASE x \notin Fields   -> <<x>>
          [] x \in ToSet(used) -> Marker(index(SelectInSeq(used, LAMBDA f : f = x)))
          [] OTHER             -> <<>>
  IN  [message |-> FlattenSeq([i \in DOMAIN label |-> written(label[i])]),
       params  |-> [k \in DOMAIN used |-> [index |-> index(k), field_id |-> used[k]]]]

-----------------------------------------------------------------------------
(* Editors *)

\* can_save: the save button needs a text
CanSave(label) == label # <<>>

\* Mutant: the text is stored as the editor shows it.
StoreLabel(label) ==
  /\ CanSave(label) /\ ~inUse
  /\ template' = <<[message |-> label, params |-> <<>>]>>
  /\ typed' = label
  /\ UNCHANGED <<existing, inUse>>

\* The editor of a template in use is read only.
Store(label) ==
  /\ CanSave(label) /\ ~inUse
  /\ template' = <<Save(label)>>
  /\ typed' = label
  /\ UNCHANGED <<existing, inUse>>

Typable == Chars \union Fixed \union existing

InsertTemplate ==
  /\ template = <<>>
  /\ \E x \in Typable : Store(<<x>>)

\* The editor opens with the preview; one token is typed or erased, or none,
\* and the text is saved.  A text differing in several tokens is reached by
\* editing several times.  The template is replaced when it differs
\* (is_template_equal), which is the same as replacing it.
EditTemplate ==
  /\ template # <<>>
  /\ LET label == template_generate_preview(template[1])
     IN  \/ Store(label)
         \/ \E i \in DOMAIN label : Store(RemoveAt(label, i))
         \/ /\ Len(label) < MaxText
            /\ \E i \in 1 .. Len(label) + 1, x \in Typable : Store(InsertAt(label, i, x))

EraseTemplate ==
  /\ template # <<>> /\ ~inUse
  /\ template' = <<>> /\ typed' = <<>>
  /\ UNCHANGED <<existing, inUse>>

\* tedit_field::can_save: the id of a new field is not in use.  An id cannot
\* be changed afterwards.
InsertField(f) ==
  /\ ~Existed(f)
  /\ existing' = existing \union {f}
  /\ UNCHANGED <<template, inUse, typed>>

\* field_in_first_template
InFirstTemplate(f) ==
  \E i \in DOMAIN template : \E k \in DOMAIN template[i].params :
    template[i].params[k].field_id = f

\* Mutant: the field of a template in use can be dragged and erased.
EraseFieldAlways(f) ==
  /\ f \in existing
  /\ existing' = existing \ {f}
  /\ UNCHANGED <<template, inUse, typed>>

\* did_fields_can_drag and erase_field.  The templates that use the field
\* keep it.
EraseField(f) ==
  /\ f \in existing
  /\ inUse => ~InFirstTemplate(f)
  /\ existing' = existing \ {f}
  /\ UNCHANGED <<template, inUse, typed>>

\* The send task is started (it needs a message), or it is reset.
UseTemplate ==
  /\ inUse' = ~inUse
  /\ inUse' => template # <<>> /\ template[1].message # <<>>
  /\ UNCHANGED <<existing, template, typed>>

Init == existing = {} /\ template = <<>> /\ inUse = FALSE /\ typed = <<>>

Next ==
  \/ InsertTemplate \/ EditTemplate \/ EraseTemplate
  \/ \E f \in UserFields : InsertField(f) \/ EraseField(f)
  \/ UseTemplate

Spec == Init /\ [][Next]_vars

-----------------------------------------------------------------------------
(* Properties *)

FieldsOf(t) == {t.params[k].field_id : k \in DOMAIN t.params}
AllExist(t) == \A f \in FieldsOf(t) : Existed(f)

\* Two digits are enough for the markers of the text.
Fits(t) == \A k \in DOMAIN t.params : t.params[k].index < Base * Base

\* What a text means for an addressee: every field is his value for it.
Meaning(text, person) ==
  FlattenSeq([i \in DOMAIN text |->
    IF text[i] \in Fields THEN person[text[i]] ELSE <<text[i]>>])

\* A stored text is characters only; a typed one has items of known fields too.
TypeOK ==
  /\ existing \subseteq UserFields /\ inUse \in BOOLEAN
  /\ typed \in Seq(Chars \union Fields)
  /\ \A i \in DOMAIN template :
       /\ template[i].message \in Seq(Chars)
       /\ template[i].params \in Seq([index : Nat, field_id : Fields])

\* An addressee receives what the text in the editor meant when it was saved
\* (template_generate_message2 after tedit_template::save), whatever markers
\* the user typed or a value contains, and also after a field was erased: the
\* values persons hold for it are still sent.
SendsWhatWasTyped ==
  \A i \in DOMAIN template : Fits(template[i]) =>
    \A p \in Persons :
      template_generate_message2(template[i], p) = Meaning(typed, p)

\* While all its fields exist, the editor opens with exactly the text that
\* was saved (template_generate_preview undoes tedit_template::save).
ReopensAsTyped ==
  \A i \in DOMAIN template : Fits(template[i]) /\ AllExist(template[i]) =>
    template_generate_preview(template[i]) = typed

\* A template changes when another text is saved and only then: a save
\* without an edit gives an equal template while all its fields exist, so
\* that is_template_equal does not regenerate the send queue for nothing, and
\* a save of another text gives one that is not equal, so that no edit is lost.
ChangesWithTheText ==
  [][ \A i \in DOMAIN template \intersect DOMAIN template' :
        Fits(template[i]) /\ Fits(template'[i]) /\ AllExist(template[i]) =>
          (template'[i] = template[i] <=> typed' = typed) ]_vars

\* While the task is in use, a field that the template shows does not vanish
\* from it (did_fields_can_drag, asserted by erase_field after the fact), so
\* that the preview shows what is being sent.
ShownWhileSent ==
  [][ inUse /\ inUse' =>
        FieldsOf(template[1]) \intersect existing \subseteq FieldsOf(template'[1]) \intersect existing' ]_vars
=============================================================================
