----------------------- MODULE AuthorizationAttempts -----------------------
(***************************************************************************)
(* Authorization attempts: infrastructure/sqlite_authorization.py and the  *)
(* callbacks of application/authorization.py.  An attempt is created with  *)
(* a fresh random state token; the provider's callback presents it again,  *)
(* once, before the deadline.                                              *)
(*                                                                         *)
(* A callback looks the attempt up by its token in one transaction and     *)
(* consumes or denies it in another; callbacks are repeated, race each     *)
(* other and carry the time they were received at.  Tokens are fresh, so   *)
(* the attempt itself stands for its token and for the digest of it, and   *)
(* two attempts never share one.  Left out: actor, redirect URI and the    *)
(* checks of their form.                                                   *)
(***************************************************************************)
EXTENDS WallClock, Sequences, SqlNull

CONSTANTS
  Attempts,       \* attempt identifiers
  Providers,      \* providers callbacks are routed for
  Callbacks,      \* handlers of callbacks, one at a time each
  NoToken,        \* a token that belongs to no attempt
  Ttl             \* seconds an attempt is good for

ASSUME AttemptsAssumption == Ttl \in Nat \ {0} /\ NoToken \notin Attempts

VARIABLES
  attempts,       \* the table: a row, or NULL, per identifier
  callbacks,      \* the callback each handler has resolved, or NULL
  told            \* per attempt, the outcomes callers were told (for the properties)

attemptVars == <<attempts, callbacks, told>>

Tokens == Attempts \cup {NoToken}

Settlements == {"consumed", "denied", "expired", "failed"}

Attempt ==
  [provider : Providers, state : {"created"} \cup Settlements,
   expiresAt : 0..(MaxTime + Ttl), completedAt : 0..MaxTime \cup {NULL},
   failure : {"state_mismatch", "consent_denied", "expired", NULL}]

\* wants is what the handler does next with the attempt it looked up.
Callback == [attempt : Attempts, wants : {"consume", "deny"}, now : 0..MaxTime]

ASSUME AttemptRowsAssumption == NULL \notin Attempt /\ NULL \notin Callback

AttemptsInit ==
  /\ attempts = [a \in Attempts |-> NULL]
  /\ callbacks = [c \in Callbacks |-> NULL]
  /\ told = [a \in Attempts |-> <<>>]

-----------------------------------------------------------------------------
(* What a transaction does to a row *)

PastDeadline(row, now) == row.expiresAt <= now

\* Fault: the state of the attempt is not looked at.
OpenAlways(row) == row # NULL

\* The row exists and nobody has settled it; otherwise the call raises.
Open(row) == row # NULL /\ row.state = "created"

Settled(row, settlement, now, failure) ==
  [row EXCEPT !.state = settlement, !.completedAt = now, !.failure = failure]

\* consume: expiry is looked at before the token.  It records no code.
Consumed(a, row, token, now) ==
  IF PastDeadline(row, now) THEN Settled(row, "expired", now, row.failure)
  ELSE IF token # a THEN Settled(row, "failed", now, "state_mismatch")
  ELSE Settled(row, "consumed", now, row.failure)

\* deny: a denial that comes too late is an expiry.
Denied(row, now) ==
  IF PastDeadline(row, now) THEN Settled(row, "expired", now, row.failure)
  ELSE Settled(row, "denied", now, "consent_denied")

\* The transaction that leaves row for attempt a.  A caller is told of an
\* outcome only if it is the one it asked for; otherwise the call raises
\* after the commit.
Settle(a, row, asked) ==
  /\ attempts' = [attempts EXCEPT ![a] = row]
  /\ told' = IF row.state = asked THEN [told EXCEPT ![a] = Append(@, asked)] ELSE told

-----------------------------------------------------------------------------
(* Operations *)

Begin(a, provider) ==
  \E now \in Samples :
    /\ attempts[a] = NULL
    /\ attempts' = [attempts EXCEPT
         ![a] = [provider |-> provider, state |-> "created", expiresAt |-> now + Ttl,
                 completedAt |-> NULL, failure |-> NULL]]
    /\ UNCHANGED <<callbacks, told>>

\* The first transaction of a callback routed for a provider: an unknown
\* token or a token of another provider's attempt ends it here.
ResolveCallback(c, token, provider, wants) ==
  \E now \in Samples :
    /\ callbacks[c] = NULL
    /\ token \in Attempts
    /\ attempts[token] # NULL
    /\ attempts[token].provider = provider
    /\ callbacks' = [callbacks EXCEPT ![c] = [attempt |-> token, wants |-> wants, now |-> now]]
    /\ UNCHANGED <<attempts, told>>

\* The second one.  It raises, and changes nothing, when the attempt was
\* settled in between.
CompleteCallback(c) ==
  /\ callbacks[c] # NULL
  /\ callbacks' = [callbacks EXCEPT ![c] = NULL]
  /\ LET a   == callbacks[c].attempt
         now == callbacks[c].now
     IN  \/ ~Open(attempts[a]) /\ UNCHANGED <<attempts, told>>
         \/ /\ Open(attempts[a]) /\ callbacks[c].wants = "consume"
            /\ Settle(a, Consumed(a, attempts[a], a, now), "consumed")
         \/ /\ Open(attempts[a]) /\ callbacks[c].wants = "deny"
            /\ Settle(a, Denied(attempts[a], now), "denied")

\* The process ends between the two.
LoseCallback(c) ==
  /\ callbacks[c] # NULL
  /\ callbacks' = [callbacks EXCEPT ![c] = NULL]
  /\ UNCHANGED <<attempts, told>>

\* consume by identifier, with whatever token the caller holds.
Consume(a, token) ==
  \E now \in Samples :
    /\ Open(attempts[a])
    /\ Settle(a, Consumed(a, attempts[a], token, now), "consumed")
    /\ UNCHANGED callbacks

Deny(a) ==
  \E now \in Samples :
    /\ Open(attempts[a])
    /\ Settle(a, Denied(attempts[a], now), "denied")
    /\ UNCHANGED callbacks

\* expire does not look at the deadline: the caller says the attempt is over.
Expire(a) ==
  \E now \in Samples :
    /\ Open(attempts[a])
    /\ Settle(a, Settled(attempts[a], "expired", now, "expired"), "expired")
    /\ UNCHANGED callbacks

AttemptsNext ==
  \/ \E a \in Attempts, provider \in Providers : Begin(a, provider)
  \/ \E c \in Callbacks, token \in Tokens, provider \in Providers :
       \E wants \in {"consume", "deny"} : ResolveCallback(c, token, provider, wants)
  \/ \E c \in Callbacks : CompleteCallback(c) \/ LoseCallback(c)
  \/ \E a \in Attempts, token \in Tokens : Consume(a, token)
  \/ \E a \in Attempts : Deny(a) \/ Expire(a)

\* The store and the clock alone.
AttemptsStep ==
  \/ AttemptsNext /\ UNCHANGED clock
  \/ PassTime /\ UNCHANGED attemptVars

AttemptsSpec == clock = 0 /\ AttemptsInit /\ [][AttemptsStep]_<<clock, attemptVars>>

-----------------------------------------------------------------------------
(* Properties *)

\* Types of the table and of the callbacks under way.
AttemptsTypeOK ==
  /\ attempts \in [Attempts -> Attempt \cup {NULL}]
  /\ callbacks \in [Callbacks -> Callback \cup {NULL}]

\* However callbacks repeat and race, at most one caller is told that it
\* settled an attempt, the attempt says for ever after what it was told, and it is
\* consent or denial only if the callback was received before the deadline.
OneCallerIsTold ==
  \A a \in Attempts : told[a] # <<>> =>
    /\ Len(told[a]) = 1 /\ attempts[a].state = told[a][1]
    /\ attempts[a].state \in {"consumed", "denied"} =>
         attempts[a].completedAt < attempts[a].expiresAt
=============================================================================
