---------------------------- MODULE MCPredicate ----------------------------
(* Small instances of FoskPredicate: numbers 0, 1, 2 of which 0 and 1 may be *)
(* closer than the tolerance of float_eq, the texts "a" (3) and "A" (4).     *)
EXTENDS FoskPredicate, FiniteSets

Exactly == {<<x, x>> : x \in Numbers}
Close == Exactly \cup {<<0, 1>>, <<1, 0>>}
ToUpper == [t \in Texts |-> 4]
IgnoreCase == Texts \X Texts

Num(n)  == [k |-> "lit", v |-> [ty |-> "num", v |-> n]]
Text(t) == [k |-> "lit", v |-> [ty |-> "text", v |-> t]]
True    == [k |-> "lit", v |-> [ty |-> "bool", v |-> 1]]
NullLit == [k |-> "lit", v |-> Null]
Col     == [k |-> "col", c |-> "c"]
Up(s)   == [k |-> "upper", of |-> s]
List(S) == [k |-> "args", of |-> S]

Cmp(l, op, r)     == [k |-> "cmp", left |-> l, op |-> op, right |-> r]
In(e, list, neg)  == [k |-> "in", e |-> e, list |-> list, negated |-> neg]
Like(e, p, neg)   == [k |-> "like", e |-> e, pattern |-> p, negated |-> neg]
IsNull(e, neg)    == [k |-> "null", e |-> e, negated |-> neg]

\* Operands with and without a column, of every kind and outcome.
MCOperands == {NullLit, Num(0), Num(2), Text(3), True, Col, Up(Text(3)), Up(Num(1)), Up(Col)}

MCAtoms ==
  {Cmp(l, op, r) : l \in MCOperands, r \in {Num(1), Text(4), Col}, op \in Ops}
  \cup {IsNull(e, neg) : e \in MCOperands, neg \in BOOLEAN}
  \cup {In(e, list, neg) : e \in MCOperands, neg \in BOOLEAN,
          list \in {{Num(0), NullLit}, {List({Num(0), Num(1)}), Num(2)}, {Col, Num(1)},
                    {Up(Text(3)), List({NullLit})}, {List({})}}}
  \cup {Like(e, p, neg) : e \in MCOperands, p \in {Text(3), NullLit, Col}, neg \in BOOLEAN}

\* Operands of AND and OR: the constants, and what depends on the row.
MCOperandAtoms ==
  {Cmp(NullLit, "=", Num(1)), Cmp(Num(0), "=", Num(0)), Cmp(Num(0), ">", Num(2)),
   Cmp(Col, "=", Num(0)), Cmp(Col, "<", Num(2)), In(Col, {Num(2), NullLit}, FALSE)}

MCPairs(S) == {[k |-> k, of |-> {p, q}] : k \in {"and", "or"}, p \in S, q \in S}
MCTrees == MCPairs(MCOperandAtoms)

MCCriteria ==
  MCAtoms \cup MCTrees
  \cup {[k |-> k, of |-> {p, q}] : k \in {"and", "or"}, p \in MCTrees, q \in MCOperandAtoms}
=============================================================================
