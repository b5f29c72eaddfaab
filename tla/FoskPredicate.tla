---------------------------- MODULE FoskPredicate ----------------------------
(***************************************************************************)
(* A WHERE, HAVING or ON predicate on its way through a query: the         *)
(* analyzer folds its constants (PredicateResolver::fold_predicate), then  *)
(* the executor evaluates what is left on a row (Eval::eval_predicate3)    *)
(* and keeps the row if the answer is True.                                *)
(*                                                                         *)
(* The operands of AND and OR are sets: Truth::and and Truth::or are       *)
(* commutative, associative and idempotent (AnyOrder), and stopping early  *)
(* at a deciding operand does not change the answer.                       *)
(* Predicates nest two levels of parentheses deep.                         *)
(*                                                                         *)
(* Values carry their type.  Numbers and texts are known by how they       *)
(* compare, texts also by their upper case and by which patterns match.    *)
(***************************************************************************)
EXTENDS Integers, SequencesExt

CONSTANTS
  Numbers,    \* a finite set of integers, in the order of the floats they stand for
  Whole,      \* those among Numbers that are integer literals
  Near,       \* the pairs of Numbers that float_eq takes for equal
  Texts,      \* texts, as numbers without meaning
  Upper,      \* to_uppercase, from Texts to Texts
  Matches,    \* the pairs of a text and a pattern that matches it
  Columns,
  Criteria,   \* the predicates clients write
  MaxOperands, \* how many operands they write in an AND or OR
  NoPredicate

VARIABLES
  criteria,   \* the predicate as qualified
  folded,     \* the predicate as folded, and planned
  row,        \* a row of the input
  answer      \* whether the filter keeps it

vars == <<criteria, folded, row, answer>>

Value(ty, S) == [ty : {ty}, v : S]
Null    == [ty |-> "null", v |-> 0]
Values  == {Null} \cup Value("bool", {0, 1}) \cup Value("num", Numbers) \cup Value("text", Texts)
Rows    == [Columns -> Values]
Truth   == {"True", "False", "Unknown"}
Ops     == {"=", "<>", "<", "<=", ">", ">="}

Literals == [k : {"lit"}, v : Values]
Cols     == [k : {"col"}, c : Columns]
Uppers   == [k : {"upper"}, of : Literals \cup Cols]
Scalars  == Literals \cup Cols \cup Uppers
Args     == [k : {"args"}, of : SUBSET Literals]

Compares == [k : {"cmp"}, left : Scalars, op : Ops, right : Scalars]
IsNulls  == [k : {"null"}, e : Scalars, negated : BOOLEAN]
InLists  == [k : {"in"}, e : Scalars, list : SUBSET (Scalars \cup Args), negated : BOOLEAN]
Likes    == [k : {"like"}, e : Scalars, pattern : Scalars, negated : BOOLEAN]
Consts   == [k : {"const"}, t : Truth]
Atoms    == Compares \cup IsNulls \cup InLists \cup Likes \cup Consts
Junctions(S) == [k : {"and", "or"}, of : (SUBSET S) \ {{}}]
Groups   == Atoms \cup Junctions(Atoms)
Trees    == Groups \cup Junctions(Groups)

ASSUME NumbersAssumption ==
  /\ Numbers \subseteq Int /\ Whole \subseteq Numbers
  /\ Near \subseteq Numbers \X Numbers
  /\ \A x \in Numbers : <<x, x>> \in Near
ASSUME TextsAssumption ==
  /\ Texts \subseteq Int /\ Upper \in [Texts -> Texts] /\ Matches \subseteq Texts \X Texts
ASSUME CriteriaAssumption == Criteria \subseteq Trees /\ NoPredicate \notin Trees
ASSUME MaxOperandsAssumption == MaxOperands \in Nat
-----------------------------------------------------------------------------
(* Truth, and the list folds over it.                                      *)

not(a) == CASE a = "True" -> "False" [] a = "False" -> "True" [] OTHER -> "Unknown"

\* (mutant: an unknown operand is looked for before a false one)
and_UnknownFirst(a, b) ==
  IF "Unknown" \in {a, b} THEN "Unknown" ELSE IF "False" \in {a, b} THEN "False" ELSE "True"

and(a, b) ==
  IF "False" \in {a, b} THEN "False" ELSE IF "Unknown" \in {a, b} THEN "Unknown" ELSE "True"

or(a, b) ==
  IF "True" \in {a, b} THEN "True" ELSE IF "Unknown" \in {a, b} THEN "Unknown" ELSE "False"

\* The truths T of the operands of AND and of OR, folded.
all(T) == IF "False" \in T THEN "False" ELSE IF "Unknown" \in T THEN "Unknown" ELSE "True"
any(T) == IF "True" \in T THEN "True" ELSE IF "Unknown" \in T THEN "Unknown" ELSE "False"

truth_of(b) == IF b THEN "True" ELSE "False"
negate(b, t) == IF b THEN not(t) ELSE t
-----------------------------------------------------------------------------
(* Scalars and comparisons.                                                *)

upper(v) == IF v.ty = "text" THEN [ty |-> "text", v |-> Upper[v.v]] ELSE Null

eval_scalar(s, r) ==
  CASE s.k = "lit"   -> s.v
    [] s.k = "col"   -> r[s.c]
    [] s.k = "upper" -> upper(IF s.of.k = "lit" THEN s.of.v ELSE r[s.of.c])

literal(s) == s.k = "lit"

\* A call is folded only for the argument type it is defined on.
fold_scalar(s) ==
  IF s.k = "upper" /\ literal(s.of) /\ s.of.v.ty = "text"
  THEN [k |-> "lit", v |-> upper(s.of.v)]
  ELSE s

numeric(op, x, y, equal) ==
  CASE op = "="  -> equal
    [] op = "<>" -> ~equal
    [] op = "<"  -> x < y
    [] op = "<=" -> x <= y \/ equal
    [] op = ">"  -> x > y
    [] op = ">=" -> x >= y \/ equal

compare(l, op, r, equal) ==
  CASE Null \in {l, r} \/ l.ty # r.ty -> "Unknown"
    [] l.ty = "num" /\ r.ty = "num" -> truth_of(numeric(op, l.v, r.v, equal))
    [] OTHER -> IF op \in {"=", "<>"} THEN truth_of((l.v = r.v) = (op = "=")) ELSE "Unknown"

\* The analyzer compares numbers with a tolerance, the executor exactly.
eval_compare3(l, op, r) == compare(l, op, r, <<l.v, r.v>> \in Near)
lit_cmp3(l, op, r) == compare(l, op, r, l.v = r.v)

\* Two integer literals are equal exactly, another pair of numbers with tolerance.
literal_equal(l, r) ==
  /\ l.ty = r.ty
  /\ IF l.ty = "num" /\ ~({l.v, r.v} \subseteq Whole) THEN <<l.v, r.v>> \in Near ELSE l.v = r.v

value_equal(l, r) == l = r

eval_like(v, p) == truth_of(<<v.v, p.v>> \in Matches)
-----------------------------------------------------------------------------
(* Atoms.                                                                  *)

\* An array given for a parameter stands for its elements.
expand_args(list) == UNION {IF s.k = "args" THEN s.of ELSE {s} : s \in list}

truth_in(hit, nulls, negated) ==
  negate(negated, IF hit THEN "True" ELSE IF nulls THEN "Unknown" ELSE "False")

\* eval_predicate3 of an atom whose list is expanded.
eval_atom(p, r) ==
  CASE p.k = "cmp"  -> lit_cmp3(eval_scalar(p.left, r), p.op, eval_scalar(p.right, r))
    [] p.k = "null" -> negate(p.negated, truth_of(eval_scalar(p.e, r) = Null))
    [] p.k = "in"   -> LET vs == {eval_scalar(s, r) : s \in expand_args(p.list)} IN
                       truth_in(\E v \in vs \ {Null} : value_equal(eval_scalar(p.e, r), v),
                                Null \in vs, p.negated)
    [] p.k = "like" -> LET v == eval_scalar(p.e, r)
                           pattern == eval_scalar(p.pattern, r)
                       IN negate(p.negated, IF v.ty = "text" /\ pattern.ty = "text"
                                            THEN eval_like(v, pattern) ELSE "Unknown")
    [] p.k = "const" -> p.t

const(t) == [k |-> "const", t |-> t]

fold_compare(p) ==
  LET l == fold_scalar(p.left)
      r == fold_scalar(p.right)
  IN  IF literal(l) /\ literal(r) THEN const(eval_compare3(l.v, p.op, r.v))
      ELSE [p EXCEPT !.left = l, !.right = r]

fold_is_null(p) ==
  LET e == fold_scalar(p.e) IN
  IF literal(e) THEN const(negate(p.negated, truth_of(e.v = Null))) ELSE [p EXCEPT !.e = e]

\* (mutant: an element that is NULL counts as no element)
fold_in_NoNull(p) ==
  LET e == fold_scalar(p.e)
      list == {fold_scalar(s) : s \in expand_args(p.list)}
      vs == {s.v : s \in list}
  IN  IF literal(e) /\ \A s \in list : literal(s)
      THEN const(truth_in(\E v \in vs \ {Null} : literal_equal(e.v, v), FALSE, p.negated))
      ELSE [p EXCEPT !.e = e, !.list = list]

fold_in(p) ==
  LET e == fold_scalar(p.e)
      list == {fold_scalar(s) : s \in expand_args(p.list)}
      vs == {s.v : s \in list}
  IN  IF literal(e) /\ \A s \in list : literal(s)
      THEN const(truth_in(\E v \in vs \ {Null} : literal_equal(e.v, v), Null \in vs, p.negated))
      ELSE [p EXCEPT !.e = e, !.list = list]

fold_like(p) ==
  LET e == fold_scalar(p.e)
      pattern == fold_scalar(p.pattern)
  IN  CASE literal(e) /\ literal(pattern) /\ e.v.ty = "text" /\ pattern.v.ty = "text" ->
             const(negate(p.negated, eval_like(e.v, pattern.v)))
        [] [k |-> "lit", v |-> Null] \in {e, pattern} -> const("Unknown")
        [] OTHER -> [p EXCEPT !.e = e, !.pattern = pattern]

fold_atom(p) ==
  CASE p.k = "cmp"   -> fold_compare(p)
    [] p.k = "null"  -> fold_is_null(p)
    [] p.k = "in"    -> fold_in(p)
    [] p.k = "like"  -> fold_like(p)
    [] p.k = "const" -> p
-----------------------------------------------------------------------------
(* AND and OR.                                                             *)

constants(S) == {p \in S : p.k = "const"}
truths(S) == {p.t : p \in constants(S)}

\* (mutant: what the constants amount to is dropped, a false one too)
fold_and_Drops(S) ==
  IF S = constants(S) THEN const(all(truths(S))) ELSE [k |-> "and", of |-> S \ constants(S)]

\* S holds the folded operands.  A deciding constant decides; other constants
\* count only if nothing else is left.
fold_and(S) ==
  CASE "False" \in truths(S) -> const("False")
    [] S = constants(S)      -> const(all(truths(S)))
    [] OTHER -> [k |-> "and", of |-> S \ constants(S)]

fold_or(S) ==
  CASE "True" \in truths(S) -> const("True")
    [] S = constants(S)     -> const(any(truths(S)))
    [] OTHER -> [k |-> "or", of |-> S \ constants(S)]

eval_group(p, r) ==
  CASE p.k = "and" -> all({eval_atom(q, r) : q \in p.of})
    [] p.k = "or"  -> any({eval_atom(q, r) : q \in p.of})
    [] OTHER       -> eval_atom(p, r)

fold_group(p) ==
  CASE p.k = "and" -> fold_and({fold_atom(q) : q \in p.of})
    [] p.k = "or"  -> fold_or({fold_atom(q) : q \in p.of})
    [] OTHER       -> fold_atom(p)

eval_predicate3(p, r) ==
  CASE p.k = "and" -> all({eval_group(q, r) : q \in p.of})
    [] p.k = "or"  -> any({eval_group(q, r) : q \in p.of})
    [] OTHER       -> eval_group(p, r)

fold_predicate(p) ==
  CASE p.k = "and" -> fold_and({fold_group(q) : q \in p.of})
    [] p.k = "or"  -> fold_or({fold_group(q) : q \in p.of})
    [] OTHER       -> fold_group(p)
-----------------------------------------------------------------------------
Init ==
  /\ criteria \in Criteria
  /\ folded = NoPredicate
  /\ row \in Rows
  /\ answer = "none"

\* The analyzer.
Fold ==
  /\ folded = NoPredicate
  /\ folded' = fold_predicate(criteria)
  /\ UNCHANGED <<criteria, row, answer>>

\* (mutant: a row is dropped only if the predicate is false)
Filter_NotFalse ==
  /\ folded # NoPredicate /\ answer = "none"
  /\ answer' = IF eval_predicate3(folded, row) # "False" THEN "kept" ELSE "dropped"
  /\ UNCHANGED <<criteria, folded, row>>

\* The executor.
Filter ==
  /\ folded # NoPredicate /\ answer = "none"
  /\ answer' = IF eval_predicate3(folded, row) = "True" THEN "kept" ELSE "dropped"
  /\ UNCHANGED <<criteria, folded, row>>

Next == Fold \/ Filter

Spec == Init /\ [][Next]_vars
-----------------------------------------------------------------------------
(* Properties.                                                             *)

truth == eval_predicate3(criteria, row)

\* An operand of AND is unknown whatever the row.
drops_unknown(p) == p.k = "and" /\ const("Unknown") \in {fold_atom(q) : q \in p.of}

\* Folding never changes what a row makes true or false; it may decide what is
\* unknown.
FoldKeepsDecided ==
  folded # NoPredicate /\ truth # "Unknown" => eval_predicate3(folded, row) = truth

\* A row the predicate is true of is kept and one it is false of is dropped; one
\* it is unknown of is dropped too, unless folding has dropped the unknown.
FilterIsExact ==
  /\ answer = "kept" => truth # "False"
  /\ answer = "dropped" => truth # "True"
  /\ answer = "kept" /\ criteria \in Groups => truth = "True" \/ drops_unknown(criteria)

\* Truth::and and Truth::or over the operands as they are written, in any order, an
\* operand repeated or not, give the truth of the set of operands.
AnyOrder ==
  criteria.k \in {"and", "or"} =>
    \A s \in UNION {[1..n -> criteria.of] : n \in 1..MaxOperands} : Range(s) = criteria.of =>
      LET t == [i \in DOMAIN s |-> eval_group(s[i], row)] IN
      truth = IF criteria.k = "and" THEN FoldLeft(and, "True", t) ELSE FoldLeft(or, "False", t)

\* Every variable has its type.
TypeOK ==
  /\ criteria \in Trees
  /\ folded \in Trees \cup {NoPredicate}
  /\ row \in Rows
  /\ answer \in {"none", "kept", "dropped"}

\* The inductive invariant: the filter works on the folded criteria.
IInv ==
  /\ TypeOK
  /\ folded # NoPredicate => folded = fold_predicate(criteria)
  /\ answer # "none" => folded # NoPredicate
  /\ answer = "kept" => eval_predicate3(folded, row) = "True"
  /\ answer = "dropped" => eval_predicate3(folded, row) # "True"

-----------------------------------------------------------------------------
(* What a comment says and the code does not do.                           *)

\* eval.rs:123: evaluation mirrors the folding of the analyzer.
FoldMirrorsEval ==
  folded # NoPredicate => eval_predicate3(folded, row) = truth
=============================================================================
