\* A person with up to two numbers, in three rows: the rows that move up when
\* one above them is erased, an empty row between full ones, and a number that
\* is full but cannot be sent to.
CONSTANTS
  Numbers = {"13800000000"}
  Letters = {"mobilephone"}
  Partial = {"138"}
  PersonNames = {"ann"}
  Sums = {"100"}
  GroupNames = {"west", "Untitled group"}
  Untitled = "Untitled group"
  MaxRows = 3
  MaxPersons = 1
SPECIFICATION Spec
INVARIANTS EditorIInv SavesWhatIsShown AddresseesValid PersonsSaved FileCurrent
           EraseButtonsTrue OnlyEraseRowFails
PROPERTIES NameKept ReadOnlyChangesNothing
