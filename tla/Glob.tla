-------------------------------- MODULE Glob --------------------------------
(***************************************************************************)
(* wildcard_matches (src/src/discovery.rs): whether a value matches a      *)
(* pattern of bytes, of which `?` stands for any byte and `*` for any      *)
(* bytes. It is asked of the file names that an Include pattern may mean,  *)
(* and of the hosts that the ignore list may name.                         *)
(*                                                                         *)
(* It goes through both with one index each. On a mismatch it comes back   *)
(* to the last `*`, and to none before, and lets it take a byte more. One  *)
(* step here is one round of its loops. Indices start at 1; they are one   *)
(* less in the code.                                                       *)
(*                                                                         *)
(* A `*` in a value would be taken for the pattern's: values have none.    *)
(***************************************************************************)
EXTENDS Integers, Sequences

CONSTANTS
    Patterns,   \* the patterns to try
    Values      \* the values to try

Star == "*"
Any == "?"

ASSUME GlobAssumption ==
    /\ Patterns \subseteq Seq(STRING)
    /\ Values \subseteq Seq(STRING)
    /\ \A val \in Values : \A i \in 1..Len(val) : val[i] # Star

VARIABLES
    pattern,
    value,
    p,            \* the next place of the pattern
    v,            \* the next place of the value
    star,         \* the place of the last `*` met, NoStar before the first
    checkpoint,   \* where what follows that `*` was tried
    verdict       \* "open" until the code returns "yes" or "no"

globVars == <<pattern, value, p, v, star, checkpoint, verdict>>

NoStar == 0

GlobInit ==
    /\ pattern \in Patterns
    /\ value \in Values
    /\ p = 1
    /\ v = 1
    /\ star = NoStar
    /\ checkpoint = 1
    /\ verdict = "open"

PatternLeft == p <= Len(pattern)
ValueLeft == v <= Len(value)

-----------------------------------------------------------------------------
(* While there is a value left *)

Fits == PatternLeft /\ (pattern[p] = Any \/ pattern[p] = value[v])

Advance ==
    /\ verdict = "open"
    /\ ValueLeft
    /\ Fits
    /\ p' = p + 1
    /\ v' = v + 1
    /\ UNCHANGED <<pattern, value, star, checkpoint, verdict>>

MeetStar ==
    /\ verdict = "open"
    /\ ValueLeft
    /\ ~Fits
    /\ PatternLeft /\ pattern[p] = Star
    /\ star' = p
    /\ checkpoint' = v
    /\ p' = p + 1
    /\ UNCHANGED <<pattern, value, v, verdict>>

\* (A mistake: the value goes on where the mismatch was.)
BacktrackFromHere ==
    /\ verdict = "open"
    /\ ValueLeft
    /\ ~Fits /\ ~(PatternLeft /\ pattern[p] = Star)
    /\ star # NoStar
    /\ p' = star + 1
    /\ checkpoint' = checkpoint + 1
    /\ v' = v + 1
    /\ UNCHANGED <<pattern, value, star, verdict>>

\* (A mistake: the `*` takes no more than before.)
BacktrackInPlace ==
    /\ verdict = "open"
    /\ ValueLeft
    /\ ~Fits /\ ~(PatternLeft /\ pattern[p] = Star)
    /\ star # NoStar
    /\ p' = star + 1
    /\ v' = checkpoint
    /\ UNCHANGED <<pattern, value, star, checkpoint, verdict>>

Backtrack ==
    /\ verdict = "open"
    /\ ValueLeft
    /\ ~Fits /\ ~(PatternLeft /\ pattern[p] = Star)
    /\ star # NoStar
    /\ p' = star + 1
    /\ checkpoint' = checkpoint + 1
    /\ v' = checkpoint'
    /\ UNCHANGED <<pattern, value, star, verdict>>

GiveUp ==
    /\ verdict = "open"
    /\ ValueLeft
    /\ ~Fits /\ ~(PatternLeft /\ pattern[p] = Star)
    /\ star = NoStar
    /\ verdict' = "no"
    /\ UNCHANGED <<pattern, value, p, v, star, checkpoint>>

-----------------------------------------------------------------------------
(* After the value *)

SkipStar ==
    /\ verdict = "open"
    /\ ~ValueLeft
    /\ PatternLeft /\ pattern[p] = Star
    /\ p' = p + 1
    /\ UNCHANGED <<pattern, value, v, star, checkpoint, verdict>>

Answer ==
    /\ verdict = "open"
    /\ ~ValueLeft
    /\ ~(PatternLeft /\ pattern[p] = Star)
    /\ verdict' = IF PatternLeft THEN "no" ELSE "yes"
    /\ UNCHANGED <<pattern, value, p, v, star, checkpoint>>

GlobNext == Advance \/ MeetStar \/ Backtrack \/ GiveUp \/ SkipStar \/ Answer

GlobSpec == GlobInit /\ [][GlobNext]_globVars

GlobFairSpec == GlobSpec /\ WF_globVars(GlobNext)

-----------------------------------------------------------------------------
(* What a match is *)

\* A cut says which part of the value each place of the pattern stands for: place
\* i for the bytes from cut[i] up to cut[i + 1], without the last.
Cuts(pat, val) == [1..(Len(pat) + 1) -> 1..(Len(val) + 1)]

StandsFor(pat, val, cut, i) ==
    \/ pat[i] = Star /\ cut[i] <= cut[i + 1]
    \/ pat[i] # Star /\ cut[i + 1] = cut[i] + 1 /\ pat[i] \in {Any, val[cut[i]]}

\* The first n places of the pattern stand for the value's bytes before the m-th.
IsCut(pat, val, cut, n, m) ==
    /\ cut[1] = 1
    /\ cut[n + 1] = m
    /\ \A i \in 1..n : StandsFor(pat, val, cut, i)

Matches(pat, val) ==
    \E cut \in Cuts(pat, val) : IsCut(pat, val, cut, Len(pat), Len(val) + 1)

\* The matcher answers as the definition does, although it never comes back to a
\* `*` before the last: for the file names of an Include and for the ignore list.
VerdictIsRight ==
    /\ verdict = "yes" => Matches(pattern, value)
    /\ verdict = "no" => ~Matches(pattern, value)

\* The matcher ends: coming back to a `*` never goes on for ever.
MatcherEnds == <>(verdict # "open")

-----------------------------------------------------------------------------
(* Why one `*` to come back to is enough: an inductive invariant *)

GlobTypeOK ==
    /\ pattern \in Patterns
    /\ value \in Values
    /\ p \in 1..(Len(pattern) + 1)
    /\ v \in 1..(Len(value) + 1)
    /\ star \in 0..Len(pattern)
    /\ checkpoint \in 1..(Len(value) + 1) /\ checkpoint <= v
    /\ verdict \in {"open", "yes", "no"}
    /\ star # NoStar => pattern[star] = Star /\ star < p

HasCut(n, m) ==
    \E cut \in Cuts(pattern, value) : IsCut(pattern, value, cut, n, m)

\* What the indices have passed matches, and so does what the last `*` ends.
FoundInv ==
    /\ HasCut(p - 1, v)
    /\ star # NoStar => HasCut(star, checkpoint)

FullCut(cut) == IsCut(pattern, value, cut, Len(pattern), Len(value) + 1)

\* No cut of the whole lets the last `*` end before the checkpoint, so what was
\* tried before need not be tried again. Since that `*` the places passed stand for
\* one byte each, in the matcher as in the cut: at p a cut is as far past v as it
\* was past the checkpoint.
PossibleInv ==
    \A cut \in Cuts(pattern, value) : FullCut(cut) =>
        IF star = NoStar
        THEN cut[p] = v
        ELSE cut[star + 1] >= checkpoint /\ cut[p] - v = cut[star + 1] - checkpoint

GlobIInv ==
    /\ GlobTypeOK
    /\ FoundInv
    /\ verdict = "open" => PossibleInv
    /\ VerdictIsRight
=============================================================================
