\* Texts of up to five tokens: a typed marker and two fields, or a field in
\* the middle of a marker.
CONSTANTS
  Digits <- MCDigits
  Letters = {}
  Fixed = {"name"}
  UserFields = {"gate", "shift"}
  Persons <- MCPersons
  MaxText = 5
SPECIFICATION Spec
INVARIANTS TypeOK SendsWhatWasTyped ReopensAsTyped
PROPERTIES ChangesWithTheText ShownWhileSent
