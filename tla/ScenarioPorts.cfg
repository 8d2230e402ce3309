SPECIFICATION Spec
INVARIANT OverlapCannotCollide
