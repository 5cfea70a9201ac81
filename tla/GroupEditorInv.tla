---------------------------- MODULE GroupEditorInv ----------------------------
(***************************************************************************)
(* Why nothing invalid is stored, and what a user saved is in the file or  *)
(* being written to it: the inductive invariant of GroupEditor.            *)
(***************************************************************************)
EXTENDS GroupEditor

(* The button and temp_person_ follow the screen.  A name that is not      *)
(* empty was there when can_save last ran.                                 *)
ScreenInv ==
  /\ saveActive = CanSave(shown, rows)
  /\ shown.name # "" => kept = shown

(* Where the loop stands: dirty and contacts_changed go together; a group  *)
(* that is not in the list is new; one that may only be looked at is the   *)
(* one in the list.                                                        *)
LoopInv ==
  /\ contactsChanged = dirty
  /\ contactsChanged => contacts # <<>>
  /\ screen # "home" /\ contacts = <<>> => isNew
  /\ readOnly => contacts = <<group>> /\ ~ isNew /\ ~ writing
  /\ writing => screen # "person"
  /\ screen # "person" => personAt = 0
  /\ screen = "home" => group = NoGroup /\ ~ readOnly /\ ~ dirty

(* Every person the open group shows is in contacts_ already.              *)
PersonsStored ==
  \A i \in DOMAIN group.persons :
    /\ contacts # <<>>
    /\ \E j \in DOMAIN contacts[1].persons : contacts[1].persons[j] = group.persons[i]

PersonIInv == PersonTypeOK /\ ScreenInv /\ EraseButtonsTrue /\ OnlyEraseRowFails

GroupIInv == LoopTypeOK /\ LoopInv /\ AddresseesValid /\ PersonsStored /\ FileCurrent

EditorIInv == PersonIInv /\ GroupIInv
=============================================================================
