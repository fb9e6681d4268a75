--------------------------- MODULE ScopeMatching ---------------------------
(***************************************************************************)
(* The scope strategies (scope_strategy.go) and the argument lists         *)
(* (arguments.go).  A scope value is the sequence of its parts between the *)
(* dots, a part a string of one letter or the empty one.                   *)
(***************************************************************************)
EXTENDS Naturals, Sequences, FiniteSets

\* Arguments.ExactOne
ExactOne(arguments, name) == Len(arguments) = 1 /\ arguments[1] = name

\* Arguments.HasOneOf, of lists that are read as sets
HasOneOf(arguments, items) == arguments \intersect items # {}

\* The length of a scope value, the dots included.
Length(scope) ==
    Cardinality({i \in DOMAIN scope : scope[i] # ""}) + Len(scope) - 1

ExactScopeStrategy(haystack, needle) == needle \in haystack

\* Mutant: a scope is contained in the narrower one.
HierarchicUpwards(haystack, needle) ==
    \E this \in haystack :
        \A k \in DOMAIN this \intersect DOMAIN needle : this[k] = needle[k]

\* The parts are compared until the registered scope has no more of them; a
\* registered scope that is longer is not even looked at.
HierarchicScopeStrategy(haystack, needle) ==
    \E this \in haystack :
        \/ this = needle
        \/ /\ Length(this) <= Length(needle)
           /\ Len(this) < Len(needle)
           /\ \A k \in DOMAIN this : this[k] = needle[k]

\* A wildcard stands for one part that is not empty; as the last part of a
\* shorter matcher for all that follow, and no other part may end one.
WildcardScopeStrategy(matchers, needle) ==
    \E matcher \in matchers :
        /\ Len(matcher) <= Len(needle)
        /\ \A k \in DOMAIN matcher :
              /\ k = Len(matcher) /\ Len(matcher) # Len(needle)
                 => matcher[k] = "*"
              /\ \/ matcher[k] = "*" /\ needle[k] # ""
                 \/ matcher[k] = needle[k]

ScopeStrategies == {"exact", "hierarchic", "wildcard"}

ScopeStrategy(strategy, haystack, needle) ==
    CASE strategy = "exact" -> ExactScopeStrategy(haystack, needle)
      [] strategy = "hierarchic" -> HierarchicScopeStrategy(haystack, needle)
      [] strategy = "wildcard" -> WildcardScopeStrategy(haystack, needle)
=============================================================================
