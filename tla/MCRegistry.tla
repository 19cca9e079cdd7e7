----------------------------- MODULE MCRegistry -----------------------------
(* Instances of Registry for TLC. *)
EXTENDS Registry, TLC

CONSTANTS t1, t2, s1, s2

Own == {t1 :> s1 @@ t2 :> s2}
Again == {t1 :> s1 @@ t2 :> s1}
Play(sids, tokens, keys, deletes, gens, crash) ==
  [sid : sids, tokens : {tokens}, keys : {keys}, deletes : {deletes}, gens : {gens},
   crashes : {crash}]

\* A session that is launched twice, with and without keys, and deleted; two sessions,
\* or one launched twice, and a daemon that dies; one session whose pids are reused.
Plays ==
  Play(Again, {t1, t2}, BOOLEAN, TRUE, 1, 0) \cup Play(Own \cup Again, {t1, t2}, {TRUE}, FALSE, 1, 2)
    \cup Play(Own, {t1}, {TRUE}, TRUE, 2, 1)
=============================================================================
