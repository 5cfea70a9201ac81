------------------------------ MODULE GroupEditor ------------------------------
(***************************************************************************)
(* The editing of a group: the loop of do_gameloop over tedit_group and    *)
(* tedit_person.  Both dialogs work on a copy of the group; the loop       *)
(* stores the copy in contacts_ and in the .pb file each time a person is  *)
(* saved, and once more when the group is.  The group editor has no cancel *)
(* button: a user leaves it unsaved by the escape key, and the program may *)
(* be killed at any time.                                                  *)
(*                                                                         *)
(* contacts_ is modelled at the one place the loop touches, this_group_at: *)
(* empty while the group is not in the list.  The other groups, and what   *)
(* happens to the send queue, are in SendTask.                             *)
(***************************************************************************)
EXTENDS PersonEditor

CONSTANTS
  GroupNames,   \* the names of a group that are not empty
  Untitled,     \* "Untitled group", which is one of them
  MaxPersons    \* bound: persons of a group

ASSUME GroupAssumption ==
  GroupNames \subseteq STRING \ {""} /\ Untitled \in GroupNames /\ MaxPersons \in Nat

VARIABLES
  screen,      \* "home", "group" or "person"
  contacts,    \* <<>> or <<g>>: contacts_ at this_group_at
  disk,        \* the same of the contacts file, <<>> when it is empty
  writing,     \* write_pb has truncated the file and not yet written it
  group,       \* the working copy, temp_group_ of the dialogs
  isNew,       \* context_result = nposm
  readOnly,    \* read_only
  personAt,    \* context_result2, 0 for a new person
  dirty, contactsChanged

loopVars == <<group, isNew, readOnly, dirty, contactsChanged>>
vars == <<screen, contacts, disk, writing, loopVars, personAt, personVars, failed>>

NoGroup == [name |-> "", persons |-> <<>>]

Running == failed = {} /\ ~writing
Broken(assertion, holds) == IF holds THEN {} ELSE {assertion}

(* Mutant: whatever group is shown gets the name.                          *)
NamedAlways(g, new) == [g EXCEPT !.name = Untitled]

(* The constructor of tedit_group names the working copy of a new group,   *)
(* and a dialog is made each time the editor is shown: a name that was     *)
(* typed for a new group does not outlive a look at one of its persons.    *)
Named(g, new) == IF new THEN [g EXCEPT !.name = Untitled] ELSE g

(* write_pb truncates the file (CREATE_ALWAYS) and writes it later: the    *)
(* handler goes on when it is written, but the program may die before.     *)
WritePb == disk' = <<>> /\ writing' = TRUE

FinishWrite ==
  /\ writing /\ failed = {}
  /\ disk' = contacts /\ writing' = FALSE
  /\ UNCHANGED <<screen, contacts, loopVars, personAt, personVars, failed>>

-----------------------------------------------------------------------------
(* Home screen                                                             *)

(* EDIT_GROUP: only a group of the list is ever opened read only.          *)
OpenGroup(ro) ==
  /\ Running /\ screen = "home"
  /\ ro => contacts # <<>>
  /\ screen' = "group"
  /\ group' = Named(IF contacts = <<>> THEN NoGroup ELSE contacts[1], contacts = <<>>)
  /\ isNew' = (contacts = <<>>)
  /\ readOnly' = ro
  /\ dirty' = FALSE /\ contactsChanged' = FALSE
  /\ UNCHANGED <<contacts, disk, writing, personAt, personVars, failed>>

EraseGroup ==
  /\ Running /\ screen = "home" /\ contacts # <<>>
  /\ contacts' = <<>> /\ WritePb
  /\ UNCHANGED <<screen, loopVars, personAt, personVars, failed>>

-----------------------------------------------------------------------------
(* Group editor                                                            *)

InGroup == Running /\ screen = "group"

(* can_save stores the name in the working copy, an empty one too.         *)
TypeGroupName(name) ==
  /\ InGroup /\ ~readOnly
  /\ name # group.name
  /\ group' = [group EXCEPT !.name = name]
  /\ UNCHANGED <<screen, contacts, disk, writing, isNew, readOnly, dirty, contactsChanged,
                 personAt, personVars, failed>>

(* Mutant: a person can be erased from a group that is only looked at.     *)
ErasePersonAlways(i) ==
  /\ InGroup
  /\ group' = [group EXCEPT !.persons = Without(@, i)]
  /\ UNCHANGED <<screen, contacts, disk, writing, isNew, readOnly, dirty, contactsChanged,
                 personAt, personVars, failed>>

ErasePerson(i) ==
  /\ InGroup /\ ~readOnly
  /\ group' = [group EXCEPT !.persons = Without(@, i)]
  /\ UNCHANGED <<screen, contacts, disk, writing, isNew, readOnly, dirty, contactsChanged,
                 personAt, personVars, failed>>

OpenPerson(i) ==
  /\ InGroup
  /\ i = 0 => ~readOnly
  /\ LET person == IF i = 0 THEN NoPerson ELSE group.persons[i]
     IN  /\ Len(person.numbers) < MaxRows
         /\ ShowPerson(person, readOnly)
  /\ screen' = "person"
  /\ personAt' = i
  /\ UNCHANGED <<contacts, disk, writing, loopVars, failed>>

(* The OCR button: handle_ocr returns nothing and the editor is shown       *)
(* again.                                                                  *)
Ocr ==
  /\ InGroup
  /\ group' = Named(group, isNew)
  /\ UNCHANGED <<screen, contacts, disk, writing, isNew, readOnly, dirty, contactsChanged,
                 personAt, personVars, failed>>

(* The loop ends: home is shown and the working copy is gone.              *)
LeaveLoop ==
  /\ screen' = "home"
  /\ group' = NoGroup /\ isNew' = FALSE /\ readOnly' = FALSE
  /\ dirty' = FALSE /\ contactsChanged' = FALSE

(* Mutant: the file is written only when no person was saved before.       *)
SaveGroupOnce ==
  /\ InGroup /\ group.name # ""
  /\ contacts' = <<group>>
  /\ IF contactsChanged THEN UNCHANGED <<disk, writing>> ELSE WritePb
  /\ LeaveLoop
  /\ UNCHANGED <<personAt, personVars, failed>>

(* The back button, active when the group has a name: the group is stored  *)
(* if it is still new or differs from the one at this_group_at, and then   *)
(* written.                                                                *)
SaveGroup ==
  /\ InGroup /\ group.name # ""
  /\ LET differs == (isNew /\ ~contactsChanged) \/ contacts # <<group>>
     IN  /\ IF differs THEN contacts' = <<group>> /\ WritePb
                       ELSE UNCHANGED <<contacts, disk, writing>>
         /\ failed' = Broken("changed_dirty", contactsChanged => dirty)
                      \union Broken("group_at", (isNew => contactsChanged) => contacts # <<>>)
  /\ LeaveLoop
  /\ UNCHANGED <<personAt, personVars>>

LeaveGroup ==
  /\ InGroup
  /\ LeaveLoop
  /\ UNCHANGED <<contacts, disk, writing, personAt, personVars, failed>>

-----------------------------------------------------------------------------
(* Person editor                                                           *)

InPerson == Running /\ screen = "person"

TypeOrErase ==
  /\ InPerson /\ ~readOnly
  /\ EditPerson
  /\ UNCHANGED <<screen, contacts, disk, writing, loopVars, personAt>>

LeavePerson ==
  /\ InPerson
  /\ screen' = "group" /\ personAt' = 0
  /\ group' = Named(group, isNew)
  /\ ClosePerson
  /\ UNCHANGED <<contacts, disk, writing, isNew, readOnly, dirty, contactsChanged, failed>>

WithPerson(person) ==
  IF personAt = 0 THEN [group EXCEPT !.persons = Append(@, person)]
                  ELSE [group EXCEPT !.persons[personAt] = person]

(* Mutant: a new group waits for its own save button.                      *)
StoreUnlessNew(new) == IF isNew THEN contacts ELSE <<new>>

(* insert_group, or the group at its place                                 *)
StoreGroup(new) == <<new>>

(* tedit_person::save and what the loop does with a person that was added  *)
(* or has changed.                                                         *)
SavePerson ==
  /\ InPerson /\ ~readOnly /\ saveActive
  /\ personAt = 0 => Len(group.persons) < MaxPersons
  /\ LET new == WithPerson(PersonOnScreen)
     IN  /\ group' = Named(new, isNew)
         /\ IF new = group
            THEN UNCHANGED <<contacts, disk, writing, dirty, contactsChanged, failed>>
            ELSE /\ contacts' = StoreGroup(new)
                 /\ WritePb
                 /\ dirty' = TRUE /\ contactsChanged' = TRUE
                 /\ failed' = IF contacts = <<>> THEN Broken("insert_group", isNew /\ ~dirty)
                                                 ELSE {}
  /\ screen' = "group" /\ personAt' = 0
  /\ ClosePerson
  /\ UNCHANGED <<isNew, readOnly>>

-----------------------------------------------------------------------------

(* The program is killed, maybe in the middle of a write, and started      *)
(* again: contacts_ is read from the file.                                 *)
Restart ==
  /\ contacts' = disk
  /\ LeaveLoop
  /\ personAt' = 0
  /\ ClosePerson
  /\ failed' = {} /\ writing' = FALSE
  /\ UNCHANGED disk

Init ==
  /\ screen = "home"
  /\ contacts = <<>> /\ disk = <<>> /\ writing = FALSE
  /\ group = NoGroup /\ isNew = FALSE /\ readOnly = FALSE
  /\ dirty = FALSE /\ contactsChanged = FALSE
  /\ personAt = 0
  /\ rows = <<>> /\ shown = EmptyBoxes /\ kept = EmptyBoxes
  /\ saveActive = FALSE /\ longErased = FALSE /\ failed = {}

Next ==
  \/ \E ro \in BOOLEAN : OpenGroup(ro)
  \/ EraseGroup
  \/ \E name \in {""} \union GroupNames : TypeGroupName(name)
  \/ \E i \in DOMAIN group.persons : ErasePerson(i)
  \/ \E i \in {0} \union DOMAIN group.persons : OpenPerson(i)
  \/ Ocr \/ SaveGroup \/ LeaveGroup
  \/ TypeOrErase \/ SavePerson \/ LeavePerson
  \/ FinishWrite \/ Restart

Spec == Init /\ [][Next]_vars

-----------------------------------------------------------------------------
(* Properties                                                              *)

PersonRecords ==
  [name : {""} \union PersonNames, money : {""} \union Sums, numbers : Seq(Texts)]
GroupRecords == [name : {""} \union GroupNames, persons : Seq(PersonRecords)]

LoopTypeOK ==
  /\ screen \in {"home", "group", "person"}
  /\ contacts \in Seq(GroupRecords) /\ Len(contacts) <= 1
  /\ group \in GroupRecords
  /\ personAt \in {0} \union DOMAIN group.persons
  /\ isNew \in BOOLEAN /\ readOnly \in BOOLEAN
  /\ dirty \in BOOLEAN /\ contactsChanged \in BOOLEAN /\ writing \in BOOLEAN

TypeOK == PersonTypeOK /\ LoopTypeOK

(* The save button of the person editor is active exactly when what is on  *)
(* the screen can be saved, and the name and sum then saved are those on   *)
(* the screen, though they reach temp_person_ only as a side effect of     *)
(* can_save, which may return early (tedit_person::can_save and ::save).   *)
SavesWhatIsShown ==
  screen = "person" =>
    /\ saveActive = CanSave(shown, rows)
    /\ saveActive => kept = shown

(* Whoever is in the contacts has a name and no number a message could not *)
(* be sent to: generate_send_queue takes every number it finds.            *)
AddresseesValid ==
  \A i \in DOMAIN contacts :
    \A j \in DOMAIN contacts[i].persons :
      LET person == contacts[i].persons[j]
      IN  person.name # "" /\ \A k \in DOMAIN person.numbers : person.numbers[k] \in Numbers

(* "user maybe edit group long time. save immediate when complete one      *)
(* person." (main.cpp:826): every person the open group shows is in the    *)
(* file, also of a group that was never saved itself, and so outlives the  *)
(* escape key and a death of the program, but for one while the file is    *)
(* being written.                                                          *)
PersonsSaved ==
  ~writing =>
    \A i \in DOMAIN group.persons :
      /\ disk # <<>>
      /\ \E j \in DOMAIN disk[1].persons : disk[1].persons[j] = group.persons[i]

(* What the loop changed in contacts_ it has written (require_write_pb), or*)
(* is writing: a death loses nothing that is shown at home, or, between    *)
(* main.cpp:402 and main.cpp:414, all of it.                               *)
FileCurrent == disk = IF writing THEN <<>> ELSE contacts

(* The erase button of a row erases that row, until a row has been erased  *)
(* from the long-press menu; only then can a button name a row that is not *)
(* there (tedit_person::erase_mobile, float_widget_click_erase).           *)
EraseButtonsTrue ==
  \/ longErased
  \/ failed = {} /\ \A i \in DOMAIN rows : rows[i].cookie = i

(* No other assertion can fail: the order of leaving a person and a group, *)
(* saving and escaping keeps those of do_gameloop true: the group is new   *)
(* when it is inserted (main.cpp:828), what was changed is dirty (:862,    *)
(* :888), and the group compared at :864 is there.                         *)
OnlyEraseRowFails == failed \subseteq {"erase_row"}

(* The name of a group that is being edited stays what the user typed when *)
(* he goes from the group to one of its persons and comes back, though the *)
(* group's dialog is made anew (do_gameloop, tedit_group::tedit_group).    *)
(* New groups are left out: they lose the name.                            *)
NameKept ==
  [][ {screen, screen'} = {"group", "person"} /\ ~isNew
        => group'.name = group.name ]_vars

(* While a group is open only to be looked at, because its messages are    *)
(* being sent, nothing in it or in the contacts changes.                   *)
ReadOnlyChangesNothing ==
  [][ readOnly => /\ UNCHANGED <<contacts, disk>>
                  /\ group' # group => screen' = "home" ]_vars
=============================================================================
