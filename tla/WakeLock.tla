------------------------------ MODULE WakeLock ------------------------------
(***************************************************************************)
(* The light bulb of the web page (src/src/web/index.html): while it is    *)
(* lit the page holds a screen wake lock. The browser grants or refuses a  *)
(* lock some time after it was requested, releases all locks of a tab that *)
(* is hidden, may release one at any time, and says so in an event. The    *)
(* page knows of one lock at most; requests may overlap.                   *)
(***************************************************************************)
EXTENDS Naturals

CONSTANT MaxAsked   \* bound: requests

ASSUME AskedAssumption == MaxAsked \in Nat

VARIABLES
    want,      \* the bulb is lit
    lock,      \* the lock that the page knows of
    asked,     \* requests under way
    requests,  \* requests so far
    held,      \* the locks that the browser holds for the page
    telling,   \* released locks whose event has not come yet
    onScreen,  \* the tab is visible
    hurried,   \* history variable: a click or return during a request or an event
    taken      \* history variable: the browser took a lock from a visible tab, and
               \* no click or return has come after its event

wakeVars == <<want, lock, asked, requests, held, telling, onScreen, hurried, taken>>

NoLock == 0

WakeInit ==
    /\ want = FALSE
    /\ lock = NoLock
    /\ asked = {}
    /\ requests = 0
    /\ held = {}
    /\ telling = {}
    /\ onScreen = TRUE
    /\ hurried = FALSE
    /\ taken = FALSE

-----------------------------------------------------------------------------
(* The page *)

\* acquireWake, up to the await.
AcquireWake ==
    IF lock # NoLock
    THEN UNCHANGED <<asked, requests>>
    ELSE requests' = requests + 1 /\ asked' = asked \cup {requests'}

\* releaseWake
ReleaseWake ==
    /\ lock' = NoLock
    /\ held' = held \ {lock}
    /\ telling' = telling \cup ({lock} \cap held)

AtRest == asked = {} /\ telling = {}

TurnOn ==
    /\ onScreen
    /\ ~want
    /\ requests < MaxAsked
    /\ want' = TRUE
    /\ AcquireWake
    /\ hurried' = (hurried \/ ~AtRest)
    /\ taken' = (taken /\ telling # {})
    /\ UNCHANGED <<lock, held, telling, onScreen>>

TurnOff ==
    /\ onScreen
    /\ want
    /\ want' = FALSE
    /\ ReleaseWake
    /\ hurried' = (hurried \/ ~AtRest)
    /\ UNCHANGED <<asked, requests, onScreen, taken>>

\* The tab is visible again. What was released while it was hidden has been told.
ComeBack ==
    /\ ~onScreen
    /\ telling = {}
    /\ requests < MaxAsked
    /\ onScreen' = TRUE
    /\ IF want THEN AcquireWake ELSE UNCHANGED <<asked, requests>>
    /\ hurried' = (hurried \/ ~AtRest)
    /\ taken' = (taken /\ telling # {})
    /\ UNCHANGED <<want, lock, held, telling>>

\* acquireWake goes on.
Granted(id) ==
    /\ onScreen
    /\ id \in asked
    /\ asked' = asked \ {id}
    /\ held' = held \cup {id}
    /\ lock' = id
    /\ UNCHANGED <<want, requests, telling, onScreen, hurried, taken>>

\* (A mistake: the bulb stays lit.)
RefusedQuietly(id) ==
    /\ id \in asked
    /\ asked' = asked \ {id}
    /\ UNCHANGED <<want, lock, requests, held, telling, onScreen, hurried, taken>>

Refused(id) ==
    /\ id \in asked
    /\ asked' = asked \ {id}
    /\ want' = FALSE
    /\ UNCHANGED <<lock, requests, held, telling, onScreen, hurried, taken>>

\* The `release` event of any lock.
Told(id) ==
    /\ id \in telling
    /\ telling' = telling \ {id}
    /\ lock' = NoLock
    /\ UNCHANGED <<want, asked, requests, held, onScreen, hurried, taken>>

-----------------------------------------------------------------------------
(* The browser *)

Hide ==
    /\ onScreen
    /\ onScreen' = FALSE
    /\ held' = {}
    /\ telling' = telling \cup held
    /\ UNCHANGED <<want, lock, asked, requests, hurried, taken>>

TakeLock(id) ==
    /\ id \in held
    /\ held' = held \ {id}
    /\ telling' = telling \cup {id}
    /\ taken' = TRUE
    /\ UNCHANGED <<want, lock, asked, requests, onScreen, hurried>>

WakeNext ==
    \/ TurnOn
    \/ TurnOff
    \/ ComeBack
    \/ Hide
    \/ \E id \in 1..MaxAsked :
          Granted(id) \/ Refused(id) \/ Told(id) \/ TakeLock(id)

WakeSpec == WakeInit /\ [][WakeNext]_wakeVars

-----------------------------------------------------------------------------

\* "rather than leaving the bulb lit over a lock we do not hold": while the bulb of
\* a visible tab is lit, the browser holds a lock or is being asked for one, however
\* clicks, refusals and hiding the tab overlap; unless it took the lock itself. While
\* it is not lit the screen may go to sleep: nothing is held, if no click or return of
\* the tab ever came during a request or before an event.
BulbIsTrue ==
    AtRest =>
        /\ want /\ onScreen /\ ~taken => held # {}
        /\ ~want /\ ~hurried => held = {}
=============================================================================
