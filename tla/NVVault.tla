------------------------------- MODULE NVVault -------------------------------
(***************************************************************************)
(* What TPM NV storage promises to those who rely on it, without slots,     *)
(* attributes or authorisations: a dictionary of spaces.  Whatever is       *)
(* defined, removed or locked around a space, its content evolves only the  *)
(* way its kind allows, and not at all once the space is frozen.            *)
(***************************************************************************)
EXTENDS Integers, Sequences

CONSTANTS Handles

VARIABLES
  spaces,    \* a function from the handles that are defined
  barred     \* the global lock

vars == <<spaces, barred>>

Init == DOMAIN spaces = {} /\ barred = FALSE

Frozen(s) == s.locked \/ (barred /\ s.barrable)

\* The contents that may follow content c in a space of some kind.
Evolves(kind, c, d) ==
  CASE kind = "COUNTER"  -> d >= c
    [] kind = "BITFIELD" -> c \subseteq d
    [] kind = "EXTEND"   -> Len(c) <= Len(d) /\ SubSeq(d, 1, Len(c)) = c
    [] kind = "ONCE"     -> c = << >> \/ d = c
    [] OTHER             -> TRUE

Define(h) ==
  /\ h \notin DOMAIN spaces
  /\ DOMAIN spaces' = DOMAIN spaces \cup {h}
  /\ \A g \in DOMAIN spaces : spaces'[g] = spaces[g]
  /\ UNCHANGED barred

\* One space is undefined, or several at once when the owner is cleared.
Remove(gone) ==
  /\ gone \subseteq DOMAIN spaces
  /\ spaces' = [g \in DOMAIN spaces \ gone |-> spaces[g]]
  /\ UNCHANGED barred

\* One space changes its content or gets locked.
Change(h) ==
  /\ h \in DOMAIN spaces
  /\ DOMAIN spaces' = DOMAIN spaces
  /\ \A g \in DOMAIN spaces \ {h} : spaces'[g] = spaces[g]
  /\ LET old == spaces[h]
         new == spaces'[h]
     IN  /\ new.kind = old.kind /\ new.barrable = old.barrable
         /\ old.locked => new.locked
         /\ Frozen(old) => new.content = old.content
         /\ Evolves(old.kind, old.content, new.content)
  /\ UNCHANGED barred

Bar == barred' = TRUE /\ UNCHANGED spaces

Next ==
  \/ Bar
  \/ \E h \in Handles : Define(h) \/ Change(h)
  \/ \E gone \in SUBSET Handles : Remove(gone)

Spec == Init /\ [][Next]_vars
=============================================================================
