------------------------------ MODULE SendQueue ------------------------------
(***************************************************************************)
(* The data the robot works on and the pure function that turns it into a  *)
(* queue of messages (generate_send_queue of main.cpp).                    *)
(*                                                                         *)
(* A group is abstracted to the sequence of mobile numbers that its        *)
(* persons carry, in the order the two nested loops visit them; a template *)
(* to a value of which only one thing matters to the queue: whether its    *)
(* message is empty.  The text made from a template and a person is        *)
(* determined by the template and the receiver, so a record keeps both.    *)
(***************************************************************************)
EXTENDS Naturals, Sequences

CONSTANTS
  Groups,        \* contents a group can have (tgroup)
  Templates,     \* contents a template can have (ttemplate)
  Receivers,     \* mobile numbers
  Mobiles,       \* Mobiles[g]: the numbers of group g, in sending order
  EmptyMessage   \* the templates whose message is empty

ASSUME QueueAssumption ==
  /\ Mobiles \in [Groups -> Seq(Receivers)]
  /\ EmptyMessage \subseteq Templates

(* CONTACTS_PB and TEMPLATES_PB: the two lists kept in memory and in files *)
Kinds == {"contacts", "templates"}
Items(k) == IF k = "contacts" THEN Groups ELSE Templates
(* What the memory (contacts_, templates_) and the two .pb files hold       *)
Lists == {m \in [Kinds -> Seq(Groups) \cup Seq(Templates)] :
            \A k \in Kinds : m[k] \in Seq(Items(k))}
NoItems == [k \in Kinds |-> <<>>]

Strategies == {"none", "sim0", "sim1", "alternate"}
Record == [receiver : Receivers, slot : {0, 1}, template : Templates]

(* The swaps of require_send_group and require_send_template move          *)
(* element i to the front and keep the order of the others.                *)
MoveToFront(s, i) ==
  [j \in 1 .. Len(s) |->
     IF j = 1 THEN s[i] ELSE IF j <= i THEN s[j - 1] ELSE s[j]]

(* DeleteSubrange(i, 1)                                                    *)
Without(s, i) == [j \in 1 .. Len(s) - 1 |-> IF j < i THEN s[j] ELSE s[j + 1]]

(* The working copy is stored at its place, or appended when it is new.    *)
Store(s, i, item) ==
  IF i <= Len(s) THEN [s EXCEPT ![i] = item] ELSE Append(s, item)

(* Mutant: slots are numbered from 1, as the history labels them.          *)
SlotFromOne(strategy, lastUseSlot) == IF strategy = "sim1" THEN 2 ELSE 1

(* The slot of every record.  The "alternate" branch tests the member      *)
(* last_use_slot of tsend_info, which nothing assigns, and not the local   *)
(* variable of the same name, which the loop does assign.                  *)
Slot(strategy, lastUseSlot) ==
  CASE strategy = "sim0" -> 0
    [] strategy = "sim1" -> 1
    [] OTHER -> IF lastUseSlot # 0 THEN 0 ELSE 1

(* group_and_template_ready, which looks at the first group and template   *)
(* only; generate_send_queue returns no record exactly when it is false.   *)
Ready(lists) ==
  /\ lists["contacts"] # <<>>
  /\ lists["templates"] # <<>>
  /\ lists["templates"][1] \notin EmptyMessage
  /\ Mobiles[lists["contacts"][1]] # <<>>

Generated(lists, strategy, lastUseSlot) ==
  IF strategy = "none" \/ ~Ready(lists)
    THEN <<>>
    ELSE LET numbers == Mobiles[lists["contacts"][1]]
         IN  [i \in 1 .. Len(numbers) |->
                [receiver |-> numbers[i],
                 slot     |-> Slot(strategy, lastUseSlot),
                 template |-> lists["templates"][1]]]
=============================================================================
