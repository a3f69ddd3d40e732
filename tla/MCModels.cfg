\* One session with one held object and one slice, a factory, and another
\* session that changes the same rows.
CONSTANTS
  Null = Null
  Unset = Unset
  Nil = Nil
  NoRow = NoRow
  Random = Random
  Domain <- MCDomain
  Setters <- MCSetters
  Recipes <- MCRecipes
  Numbers = {2}
  MaxBase = 1

SPECIFICATION FactorySpec

VIEW MCView

INVARIANTS
  ModelTypeOK
  TemplatesAgree

PROPERTIES
  CreateIsComplete
  TouchesOnlyItsRows
  ObjectsFollowRows
