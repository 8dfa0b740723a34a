----------------------------- MODULE CrawlPacing -----------------------------
(***************************************************************************)
(* Politeness of one crawl: Pacer::reserve hands every launched fetch a    *)
(* start slot of its host, as a delay relative to the instant of the       *)
(* reservation; fetch_one starts its timer for that delay when it is first *)
(* polled, and sends its request when it is polled after the timer fired.  *)
(*                                                                         *)
(* Fetches are polled only while the stream body awaits a completion.      *)
(* Between two pages the body is suspended, for as long as the consumer of *)
(* the stream takes (the facade embeds the page it was handed before it    *)
(* asks for the next one); in the fill loop it may be held up by the fetch *)
(* of another host's robots.txt.                                           *)
(***************************************************************************)
EXTENDS Integers, FiniteSets

CONSTANTS
  Servers,
  Fetches,        \* the fetches of the crawl
  HostOf,         \* the host each of them goes to
  Interval,       \* min_delay, widened by a robots crawl-delay
  Horizon,        \* bound on the clock
  AsksRobots,     \* respect_robots: the fill loop awaits a host's policy
  MaxBackoff      \* longest backoff of a retry; 0 when nothing is retried

ASSUME PacingAssumption ==
  /\ IsFiniteSet(Fetches)
  /\ HostOf \in [Fetches -> Servers]
  /\ Interval \in Nat
  /\ Horizon \in Nat
  /\ AsksRobots \in BOOLEAN
  /\ MaxBackoff \in Nat

VARIABLES
  now,          \* the clock
  phase,        \* of the stream body: "fill", "asking", "await" or "suspended"
  next_free,    \* Pacer::next_free, 0 for a host never reserved
  worker,       \* per fetch: [state, time]; time is a delay while "reserved",
                \* a deadline while "sleeping" or "retrying"
  sent_at,      \* history: per fetch, when its first attempt was sent
  overdue       \* history: the fetches whose first attempt was not sent at
                \* its slot, because nobody polled them

pacer_vars == <<now, phase, next_free, worker, sent_at, overdue>>
sent_history == <<sent_at, overdue>>

Idle == [state |-> "idle", time |-> 0]
Never == Horizon + 1

PacerInit ==
  /\ now = 0
  /\ phase = "fill"
  /\ next_free = [h \in Servers |-> 0]
  /\ worker = [f \in Fetches |-> Idle]
  /\ sent_at = [f \in Fetches |-> Never]
  /\ overdue = {}

Later(x, y) == IF x > y THEN x ELSE y

SlotOf(h) == Later(next_free[h], now)

\* Mutant: the slot is handed out without moving the next one.
After_Same(slot) == slot

After(slot) == slot + Interval

\* Pacer::reserve, at the launch of a fetch.
Reserve(f) ==
  LET slot == SlotOf(HostOf[f])
  IN /\ phase = "fill"
     /\ worker[f].state = "idle"
     /\ next_free' = [next_free EXCEPT ![HostOf[f]] = After(slot)]
     /\ worker' = [worker EXCEPT ![f] = [state |-> "reserved",
                                         time |-> slot - now]]
     /\ UNCHANGED <<now, phase>>
     /\ UNCHANGED sent_history

\* The robots.txt of the next page's host is not known yet: the fill loop
\* fetches it, however long that takes, and polls nothing else.
AskRobots ==
  /\ AsksRobots
  /\ phase = "fill"
  /\ phase' = "asking"
  /\ UNCHANGED <<now, next_free, worker>>
  /\ UNCHANGED sent_history

Await ==
  /\ phase = "fill"
  /\ phase' = "await"
  /\ UNCHANGED <<now, next_free, worker>>
  /\ UNCHANGED sent_history

\* The first request of f goes out now.
Send(f) ==
  /\ worker' = [worker EXCEPT ![f] = [state |-> "sent", time |-> 0]]
  /\ sent_at' = [sent_at EXCEPT ![f] = now]
  /\ UNCHANGED overdue

\* First poll: the timer starts here.  A zero delay is not slept at all.
FirstPoll(f) ==
  /\ phase = "await"
  /\ worker[f].state = "reserved"
  /\ \/ /\ worker[f].time = 0
        /\ Send(f)
     \/ /\ worker[f].time > 0
        /\ worker' = [worker EXCEPT ![f] = [state |-> "sleeping",
                                            time |-> now + worker[f].time]]
        /\ UNCHANGED sent_history
  /\ UNCHANGED <<now, phase, next_free>>

\* The slot's timer fired and the fetch is polled.
WakeUp(f) ==
  /\ phase = "await"
  /\ worker[f].state = "sleeping"
  /\ worker[f].time <= now
  /\ Send(f)
  /\ UNCHANGED <<now, phase, next_free>>

\* A retriable failure: sleep for a backoff the pacer knows nothing of.
BackOff(f) ==
  /\ phase = "await"
  /\ worker[f].state = "sent"
  /\ \E backoff \in 1..MaxBackoff :
       worker' = [worker EXCEPT ![f] = [state |-> "retrying",
                                        time |-> now + backoff]]
  /\ UNCHANGED <<now, phase, next_free>>
  /\ UNCHANGED sent_history

Resend(f) ==
  /\ phase = "await"
  /\ worker[f].state = "retrying"
  /\ worker[f].time <= now
  /\ worker' = [worker EXCEPT ![f] = [state |-> "sent", time |-> 0]]
  /\ UNCHANGED <<now, phase, next_free>>
  /\ UNCHANGED sent_history

\* A fetch ends; its page is handed to the consumer, or there is none and the
\* fill loop goes on.
Completed(f) ==
  /\ phase = "await"
  /\ worker[f].state = "sent"
  /\ worker' = [worker EXCEPT ![f] = [state |-> "done", time |-> 0]]
  /\ phase' \in {"fill", "suspended"}
  /\ UNCHANGED <<now, next_free>>
  /\ UNCHANGED sent_history

\* The policy arrived, or the consumer asks for the next page.
Resume ==
  /\ phase \in {"asking", "suspended"}
  /\ phase' = "fill"
  /\ UNCHANGED <<now, next_free, worker>>
  /\ UNCHANGED sent_history

\* Fetches the executor would poll at once if the body awaits.
Pollable == {f \in Fetches : \/ worker[f].state = "reserved"
                             \/ /\ worker[f].state \in {"sleeping", "retrying"}
                                /\ worker[f].time <= now}

\* Time passes while the body is held, however long, and while it awaits only
\* once every fetch that is ready has been polled.  The fill loop itself takes
\* none.
Tick ==
  /\ now < Horizon
  /\ \/ phase \in {"asking", "suspended"}
     \/ phase = "await" /\ Pollable = {}
  /\ now' = now + 1
  /\ overdue' = overdue \cup
       {f \in Pollable : worker[f].state \in {"reserved", "sleeping"}}
  /\ UNCHANGED <<phase, next_free, worker, sent_at>>

Fetch(f) ==
  \/ Reserve(f)
  \/ FirstPoll(f)
  \/ WakeUp(f)
  \/ BackOff(f)
  \/ Resend(f)
  \/ Completed(f)

PacerNext == (\E f \in Fetches : Fetch(f)) \/ AskRobots \/ Await \/ Resume \/ Tick

PacerSpec == PacerInit /\ [][PacerNext]_pacer_vars

\* The shape of the state; delays and slots stay natural numbers, so the
\* subtraction in the reservation never underflows.
PacerTypeOK ==
  /\ now \in 0..Horizon
  /\ phase \in {"fill", "asking", "await", "suspended"}
  /\ next_free \in [Servers -> Nat]
  /\ worker \in [Fetches -> [state : {"idle", "reserved", "sleeping", "sent",
                                      "retrying", "done"}, time : Nat]]
  /\ sent_at \in [Fetches -> 0..Never]
  /\ overdue \subseteq Fetches

IntervalApart(f, g) ==
  f # g /\ HostOf[f] = HostOf[g] /\ sent_at[f] # Never /\ sent_at[g] # Never =>
    sent_at[f] + Interval <= sent_at[g] \/ sent_at[g] + Interval <= sent_at[f]

\* What the pacer documents: the first attempts to one host are sent at least
\* the interval apart, however many fetches are in flight.  A pause of the
\* body breaks it: the timers that fired meanwhile are all found at the next
\* poll, and a delay that was not polled yet starts late.
FirstAttemptsSpaced == \A f, g \in Fetches : IntervalApart(f, g)

\* What the reservation does ensure: only a fetch that was itself held past its
\* slot comes too near to another one, so first attempts polled in time are
\* the interval apart, whatever was late or retried in between.
SpacedUnlessOverdue == \A f, g \in Fetches \ overdue : IntervalApart(f, g)

FirstSent(h) == {f \in Fetches : HostOf[f] = h /\ sent_at[f] # Never}

\* And what no pause can break: since the crawl began, a host has been sent no
\* more first attempts than one each interval; what comes in a burst came late.
AtTheRate ==
  \A h \in Servers : (Cardinality(FirstSent(h)) - 1) * Interval <= now

=============================================================================
