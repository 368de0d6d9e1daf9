-------------------------------- MODULE SmartQ --------------------------------
(***************************************************************************)
(* The Q objects that view scopes return, as trees, and smart_q_or, which  *)
(* joins them and leaves out what another one makes redundant.             *)
(*                                                                         *)
(* A tree is a node of Django's Q: a connector, a negation, children.  A   *)
(* child that is no Q (a lookup and its value) is a leaf that names a fact *)
(* a row may have.  The fact "none" is pk__in=[], which no row has.        *)
(***************************************************************************)
EXTENDS Integers, SequencesExt

Leaf(fact) == [con |-> "LEAF", neg |-> FALSE, fact |-> fact, ch |-> << >>]
Q(con, neg, ch) == [con |-> con, neg |-> neg, fact |-> "", ch |-> ch]

IsQ(c) == c.con # "LEAF"

AlwaysTrue == Q("AND", TRUE, <<Leaf("none")>>)
AlwaysFalse == Q("AND", FALSE, <<Leaf("none")>>)

(* What Django makes of a tree: whether a row with these facts matches it. *)
RECURSIVE Holds(_, _)
Holds(c, facts) ==
  IF ~IsQ(c) THEN c.fact \in facts
  ELSE c.neg # IF c.con = "AND" THEN \A i \in DOMAIN c.ch : Holds(c.ch[i], facts)
                                ELSE \E i \in DOMAIN c.ch : Holds(c.ch[i], facts)

-----------------------------------------------------------------------------

Other(con) == IF con = "AND" THEN "OR" ELSE "AND"

Negated(c) == IF IsQ(c) THEN [c EXCEPT !.neg = ~@] ELSE Q("AND", TRUE, <<c>>)

(* Negations go down to the children, except to an only child; a child     *)
(* with the connector of its parent is taken up into it.                   *)
RECURSIVE Normal(_)
Normal(q) ==
  LET single == Len(q.ch) = 1
      pushed == q.neg /\ ~single
      con == IF single THEN "AND" ELSE IF pushed THEN Other(q.con) ELSE q.con
      Kid(i) == LET c == IF pushed THEN Negated(q.ch[i]) ELSE q.ch[i]
                IN IF IsQ(c) THEN Normal(c) ELSE c
      Flat(c) == IF IsQ(c) /\ c.con = con /\ ~c.neg THEN c.ch ELSE <<c>>
  IN Q(con, q.neg /\ single, FlattenSeq([i \in DOMAIN q.ch |-> Flat(Kid(i))]))

(* Everything is taken for an AND that is not negated.                     *)
Conjuncts(q) == IF q.con = "AND" /\ ~q.neg THEN ToSet(q.ch) ELSE {q}

(* Mutant: the two sides are swapped.                                      *)
StricterSwapped(lhs, rhs) == Conjuncts(lhs) \ {AlwaysTrue} \subseteq Conjuncts(rhs)

Stricter(lhs, rhs) == Conjuncts(rhs) \ {AlwaysTrue} \subseteq Conjuncts(lhs)

Alternatives(q) ==
  LET n == Normal(q)
  IN IF n.con = "OR" /\ ~n.neg
     THEN [i \in DOMAIN n.ch |-> IF IsQ(n.ch[i]) THEN n.ch[i] ELSE Q("AND", FALSE, <<n.ch[i]>>)]
     ELSE <<n>>

(* An alternative that is stricter than a kept one is left out, and takes  *)
(* the place of those that are stricter than it.                           *)
Filtered(alternatives) ==
  FoldLeft(LAMBDA kept, new :
             IF \E old \in ToSet(kept) : Stricter(new, old) THEN kept
             ELSE Append(SelectSeq(kept, LAMBDA old : ~Stricter(old, new)), new),
           << >>, alternatives)

SmartOr(qs) ==
  LET kept == Filtered(FlattenSeq([i \in DOMAIN qs |-> Alternatives(qs[i])]))
  IN IF kept = << >> THEN AlwaysFalse ELSE Q("OR", FALSE, kept)
=============================================================================
