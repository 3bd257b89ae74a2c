CONSTANT Used <- AllMethods
SPECIFICATION Spec
INVARIANTS
    RequestsAccepted
    AnswersUnderstood
    ChangesObserved
