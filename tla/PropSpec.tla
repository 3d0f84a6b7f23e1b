------------------------------ MODULE PropSpec -------------------------------
(***************************************************************************)
(* What ECMAScript says of the properties of an ordinary object, an array  *)
(* or an arguments object: [[GetOwnProperty]], [[DefineOwnProperty]],      *)
(* [[HasProperty]], [[Get]], [[Set]], [[Delete]] and preventExtensions.    *)
(* An object is [cls, len, lenW, ext, props, mapped]: props is a function  *)
(* from its keys, mapped the keys that stand for the variable.             *)
(***************************************************************************)
EXTENDS Integers, Sequences, Functions, TLC

VARIABLES object, variable, chain

Undef == "undefined"
NoFn == "none"
Put(f, k, p) == [x \in DOMAIN f \cup {k} |-> IF x = k THEN p ELSE f[x]]
Field(d, p, f) == IF f \in d.has THEN d[f] ELSE p[f]
IsAccessor(d) == d.has \cap {"g", "s"} # {}
IsData(d) == d.has \cap {"v", "w"} # {}

NewProperty(d) ==
    [t |-> IF IsAccessor(d) THEN "accessor" ELSE "data", v |-> d.v, g |-> d.g, s |-> d.s,
     w |-> d.w, e |-> d.e, c |-> d.c]

\* ValidateAndApplyPropertyDescriptor, of a property p that exists.
Valid(p, d) ==
    p.c \/ /\ "c" \in d.has => ~d.c
           /\ "e" \in d.has => d.e = p.e
           /\ IsAccessor(d) => p.t = "accessor"
           /\ IsData(d) => p.t = "data"
           /\ p.t = "accessor" => ("g" \in d.has => d.g = p.g) /\ ("s" \in d.has => d.s = p.s)
           /\ (p.t = "data" /\ ~p.w) => ("w" \in d.has => ~d.w) /\ ("v" \in d.has => d.v = p.v)

Applied(p, d) ==
    LET base == IF IsAccessor(d) /\ p.t = "data"
                THEN [p EXCEPT !.t = "accessor", !.v = Undef, !.w = FALSE]
                ELSE IF IsData(d) /\ p.t = "accessor"
                THEN [p EXCEPT !.t = "data", !.g = NoFn, !.s = NoFn, !.w = FALSE] ELSE p
    IN  [t |-> base.t] @@ [f \in {"v", "g", "s", "w", "e", "c"} |-> Field(d, base, f)]

\* OrdinaryDefineOwnProperty: [o, var, ok].
Define(o, k, d, var) ==
    LET exists == k \in DOMAIN o.props
        mapped == k \in o.mapped
        unmap == IsAccessor(d) \/ ("w" \in d.has /\ ~d.w)
        q == [o EXCEPT !.props = Put(@, k, IF exists THEN Applied(o.props[k], d) ELSE NewProperty(d)),
                       !.mapped = IF unmap THEN @ \ {k} ELSE @]
    IN  IF IF exists THEN ~Valid(o.props[k], d) ELSE ~o.ext THEN [o |-> o, var |-> var, ok |-> FALSE]
        ELSE [o |-> q, var |-> IF mapped /\ "v" \in d.has THEN d.v ELSE var, ok |-> TRUE]

\* The [[DefineOwnProperty]] of arrays, for an index.
DefineIndex(o, k, d, var) ==
    LET r == Define(o, k, d, var)
    IN  IF o.cls = "array" /\ k >= o.len
        THEN IF ~o.lenW \/ ~r.ok THEN [o |-> o, var |-> var, ok |-> FALSE]
             ELSE [r EXCEPT !.o.len = k + 1]
        ELSE r

\* ArraySetLength
KeptLength(o, n) ==
    LET fixed == {k + 1 : k \in {x \in DOMAIN o.props : x >= n /\ ~o.props[x].c}}
    IN  IF fixed = {} THEN n ELSE CHOOSE m \in fixed : \A x \in fixed : x <= m
ArraySetLength(o, n, d) ==
    LET m == KeptLength(o, n)
        newW == IF "w" \in d.has THEN d.w ELSE o.lenW
    IN  IF ~Valid([t |-> "data", v |-> Undef, g |-> NoFn, s |-> NoFn, w |-> o.lenW, e |-> FALSE, c |-> FALSE],
                  [d EXCEPT !.has = @ \ {"v"}]) \/ ("v" \in d.has /\ n # o.len /\ ~o.lenW)
        THEN [o |-> o, ok |-> FALSE]
        ELSE IF "v" \notin d.has THEN [o |-> [o EXCEPT !.lenW = newW], ok |-> TRUE]
        ELSE [o |-> [o EXCEPT !.len = m, !.lenW = newW,
                              !.props = Restrict(@, {k \in DOMAIN @ : k < m})], ok |-> m = n]

\* The first object, of the i-th and those behind it, that has the key.
Objs == <<object>> \o chain
Holders(i, k) == {j \in i..Len(Objs) : k \in DOMAIN Objs[j].props}
First(i, k) == CHOOSE j \in Holders(i, k) : \A x \in Holders(i, k) : j <= x

\* OrdinarySet
SetFrom(i, k, v) ==
    LET p == Objs[First(i, k)].props[k]
        own == object.props[k]
        all == [has |-> {"v", "w", "e", "c"}, v |-> v, g |-> NoFn, s |-> NoFn, w |-> TRUE, e |-> TRUE, c |-> TRUE]
        Failed == [o |-> object, var |-> variable, res |-> <<"false">>]
        r == DefineIndex(object, k, IF k \in DOMAIN object.props THEN [all EXCEPT !.has = {"v"}] ELSE all, variable)
    IN  IF Holders(i, k) # {} /\ p.t = "accessor"
        THEN IF p.s = NoFn THEN Failed ELSE [Failed EXCEPT !.res = <<"calls", p.s>>]
        ELSE IF Holders(i, k) # {} /\ ~p.w THEN Failed
        ELSE IF k \in DOMAIN object.props /\ (own.t = "accessor" \/ ~own.w) THEN Failed
        ELSE [o |-> r.o, var |-> r.var, res |-> IF r.ok THEN <<"true">> ELSE <<"false">>]

Got(k) ==
    LET p == Objs[First(1, k)].props[k]
    IN  IF Holders(1, k) = {} THEN <<"value", Undef>>
        ELSE IF p.t = "data" THEN <<"value", p.v>>
        ELSE IF p.g = NoFn THEN <<"value", Undef>> ELSE <<"calls", p.g>>

Bool(b) == IF b THEN <<"true">> ELSE <<"false">>
Same == [o |-> object, var |-> variable]

Deleted(k) ==
    IF k \in DOMAIN object.props /\ ~object.props[k].c THEN Same @@ [res |-> <<"false">>]
    ELSE [o |-> [object EXCEPT !.props = Restrict(@, DOMAIN @ \ {k}), !.mapped = @ \ {k}],
          var |-> variable, res |-> <<"true">>]

Assigned(v) ==
    [o |-> [object EXCEPT !.props = [k \in DOMAIN @ |-> IF k \in object.mapped THEN [@[k] EXCEPT !.v = v] ELSE @[k]]],
     var |-> v, res |-> <<"true">>]

LengthSet(n, d) == LET r == ArraySetLength(object, n, d) IN [o |-> r.o, var |-> variable, res |-> Bool(r.ok)]
Value(n) == [has |-> {"v"}, v |-> n, g |-> NoFn, s |-> NoFn, w |-> FALSE, e |-> FALSE, c |-> FALSE]

Unsynced(c) ==
    CASE c[1] = "get" -> Same @@ [res |-> Got(c[2])]
      [] c[1] = "has" -> Same @@ [res |-> Bool(Holders(1, c[2]) # {})]
      [] c[1] = "delete" -> Deleted(c[2])
      [] c[1] = "set" -> SetFrom(1, c[2], c[3])
      [] c[1] = "reflectSet" -> SetFrom(c[4], c[2], c[3])
      [] c[1] = "define" -> LET r == DefineIndex(object, c[2], c[3], variable)
                            IN  [o |-> r.o, var |-> r.var, res |-> Bool(r.ok)]
      [] c[1] = "arg" -> Assigned(c[2])
      [] c[1] = "prevent" -> [o |-> [object EXCEPT !.ext = FALSE], var |-> variable, res |-> <<"true">>]
      [] c[1] = "setLength" -> IF object.lenW THEN LengthSet(c[2], Value(c[2])) ELSE Same @@ [res |-> <<"false">>]
      [] c[1] = "defineLength" -> LengthSet(c[2], c[3])

\* A mapped property has the value of its variable.
Sync(o, var) == [o EXCEPT !.props = [k \in DOMAIN @ |-> IF k \in o.mapped THEN [@[k] EXCEPT !.v = var] ELSE @[k]]]
\* What a call leaves and returns.
Result(c) == LET r == Unsynced(c) IN [o |-> Sync(r.o, r.var), var |-> r.var, res |-> r.res]
=============================================================================
