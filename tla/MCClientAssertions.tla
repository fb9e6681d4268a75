------------------------- MODULE MCClientAssertions -------------------------
(***************************************************************************)
(* Instances of ClientAssertions for TLC: two clients, one of which names  *)
(* its key, a reused name, and one JWT ID that everybody uses.             *)
(***************************************************************************)
EXTENDS ClientAssertions, TLC

CONSTANTS c1, c2, s1, s2, i1, i2, j1

JWT(kind, issuer, kid, key, jti, exp, audience) ==
    [kind |-> kind, issuer |-> issuer, kid |-> kid, key |-> key, jti |-> jti,
     exp |-> exp, audienceMatches |-> audience]

\* A client that names its key, one that does not and names the wrong
\* audience, a grant, and one without an ID.
MCAssertions ==
    { JWT("client", c1, i1, s1, j1, 1, TRUE),
      JWT("client", c2, None, s2, j1, 2, FALSE),
      JWT("grant", c1, None, s1, j1, 1, TRUE),
      JWT("grant", c1, None, s1, None, 1, TRUE) }

\* The key of the first assertion with another one behind it, that other one
\* alone, and the other one under the name of the first.
Named(i, s) == [kid |-> i, key |-> s]
MCKeySets ==
    { <<Named(i1, s1), Named(i2, s2)>>, <<Named(i2, s2)>>, <<Named(i1, s2)>> }

Symmetry == Permutations(Calls)
=============================================================================
