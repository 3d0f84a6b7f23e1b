SPECIFICATION Spec
INVARIANTS
    
    MethodsAsDefined
