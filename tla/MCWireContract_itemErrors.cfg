CONSTANT Used <- EditMethods
SPECIFICATION Spec
INVARIANT ItemErrorsReachCaller
