------------------------------ MODULE DnsLookup ------------------------------
(***************************************************************************)
(* `pingenty dns` (src/src/dns.rs, src/src/main.rs): an engine that looks   *)
(* its domains up in turn, each lookup with up to MaxAttempts attempts under   *)
(* an outer timeout as long as the timeout of one attempt, and a loop that  *)
(* prints results until Ctrl-C.  The resolver and the servers are external: *)
(* an attempt is answered, fails, or is given up after its timeout.         *)
(***************************************************************************)
EXTENDS Integers, Sequences

CONSTANTS
    DnsTimeout,     \* --timeout
    MaxAttempts,       \* 2: opts.attempts
    DnsDomains,     \* how many domains were given
    Late,           \* bound: how long a due poll may wait for a worker
    MaxLookups,     \* bound: lookups in all
    MaxElapsed      \* bound: ticks of a lookup; above all that its timers allow

(* What the resolver may return: records, an empty answer, NXDOMAIN, or an  *)
(* error that says something else (NODATA, SERVFAIL), all of which end the  *)
(* lookup; or a failure that it retries.                                    *)
Final == {"records", "empty", "nxdomain", "nodata"}
Answers == Final \cup {"failed"}
Nil == "nil"

ASSUME DnsAssumption ==
    /\ DnsTimeout \in Nat /\ Late \in Nat
    /\ MaxAttempts \in Nat \ {0} /\ DnsDomains \in Nat \ {0}
    /\ MaxLookups \in Nat /\ MaxElapsed \in Nat

VARIABLES
    dns,            \* the engine: [pc, domain, done]
    lookup,         \* the lookup under way
    results,        \* the channel
    dnsMain,        \* the command's loop
    handler,        \* tokio's handler of SIGINT is installed
    ctrlC,          \* what became of the last Ctrl-C
    shown           \* history: the results printed

dnsVars == <<dns, lookup, results, dnsMain, handler, ctrlC, shown>>

(* `tried` is the time of this attempt, `due` how long a poll is overdue;   *)
(* `fast` is history: an attempt failed before its timeout.                 *)
NewLookup == [attempt |-> 1, elapsed |-> 0, tried |-> 0, due |-> 0, reply |-> Nil,
              fast |-> FALSE]

(* Mutant: a listener is made before the loop, and dropped. *)
HandlerFromStart == TRUE

HandlerAtStart == FALSE

DnsInit ==
    /\ dns = [pc |-> "ask", domain |-> 1, done |-> 0]
    /\ lookup = NewLookup
    /\ results = <<>> /\ shown = <<>>
    /\ dnsMain = "turn" /\ handler = HandlerAtStart /\ ctrlC = "none"

------------------------------------------------------------------------------
(* resolve *)

Ask ==
    /\ dns.pc = "ask"
    /\ dns.done < MaxLookups
    /\ dns' = [dns EXCEPT !.pc = "lookup"]
    /\ lookup' = NewLookup
    /\ UNCHANGED <<results, dnsMain, handler, ctrlC, shown>>

(* The network brings an answer to this attempt's query. *)
Answered ==
    /\ dns.pc = "lookup" /\ lookup.reply = Nil
    /\ \E a \in Answers : lookup' = [lookup EXCEPT !.reply = a]
    /\ UNCHANGED <<dns, results, dnsMain, handler, ctrlC, shown>>

(* The resolver's future, polled: it is done, or on its next attempt.       *)
AttemptOver(l) == l.reply = "failed" \/ l.tried >= DnsTimeout

(* Mutant: one attempt too many. *)
AttemptsSpent(l) == l.attempt > MaxAttempts

LastAttempt(l) == l.attempt = MaxAttempts

Resolver(l) ==
    IF l.reply \in Final \/ ~AttemptOver(l) THEN l
    ELSE IF LastAttempt(l) THEN [l EXCEPT !.reply = "gaveup"]
    ELSE [l EXCEPT !.attempt = @ + 1, !.tried = 0, !.reply = Nil,
                   !.fast = l.tried < DnsTimeout]

(* Mutant: the outer timeout covers both attempts. *)
OuterForAll(l) == l.elapsed >= MaxAttempts * DnsTimeout

OuterExpired(l) == l.elapsed >= DnsTimeout

Status(kind) == IF kind = "records" THEN "Success"
                ELSE IF kind \in {"empty", "nxdomain"} THEN "NotFound" ELSE "Error"

Result(l, kind) == [status |-> Status(kind), kind |-> kind, domain |-> dns.domain,
                    latency |-> l.elapsed, attempt |-> l.attempt, fast |-> l.fast]

PollDue(l) == l.reply # Nil \/ AttemptOver(l) \/ OuterExpired(l)

(* tokio::time::timeout polls the resolver and then its own timer.  A       *)
(* result is sent; after the last domain the engine sleeps and begins anew. *)
Poll ==
    /\ dns.pc = "lookup" /\ PollDue(lookup)
    /\ LET l == Resolver(lookup)
           over == l.reply \in Final \cup {"gaveup"}
           kind == IF over THEN l.reply ELSE "timeout"
       IN  IF over \/ OuterExpired(l)
             THEN /\ results' = IF dnsMain = "ended" THEN results
                                ELSE Append(results, Result(l, kind))
                  /\ dns' = [pc     |-> IF dnsMain = "ended" THEN "returned" ELSE "ask",
                             domain |-> IF dns.domain = DnsDomains THEN 1 ELSE dns.domain + 1,
                             done   |-> dns.done + 1]
                  /\ UNCHANGED lookup
             ELSE lookup' = [l EXCEPT !.due = 0] /\ UNCHANGED <<results, dns>>
    /\ UNCHANGED <<dnsMain, handler, ctrlC, shown>>

(* Time passes, up to Late ticks past a poll that is due. *)
DnsTick ==
    /\ dns.pc = "lookup"
    /\ PollDue(lookup) => lookup.due < Late
    /\ lookup.elapsed < MaxElapsed
    /\ lookup' = [lookup EXCEPT !.elapsed = @ + 1, !.tried = @ + 1,
                                !.due = IF PollDue(lookup) THEN @ + 1 ELSE 0]
    /\ UNCHANGED <<dns, results, dnsMain, handler, ctrlC, shown>>

------------------------------------------------------------------------------
(* The command's loop: each turn makes a select! with a new ctrl_c().       *)

TakeResult ==
    /\ dnsMain' = "printing"
    /\ shown' = Append(shown, Head(results))
    /\ results' = Tail(results)

(* select! polls its branches in random order: a result that is there is    *)
(* taken, maybe before ctrl_c() was polled at all; without one the loop     *)
(* waits, and ctrl_c() listens.                                             *)
Turn ==
    /\ dnsMain = "turn"
    /\ \/ results # <<>> /\ TakeResult /\ handler' \in {handler, TRUE}
       \/ results = <<>> /\ dnsMain' = "wait" /\ handler' = TRUE
                         /\ UNCHANGED <<results, shown>>
    /\ UNCHANGED <<dns, lookup, ctrlC>>

(* A result comes while it waits, or both do: the listener is dropped with  *)
(* the turn, and with it a Ctrl-C it had heard.                             *)
Show ==
    /\ dnsMain = "wait" /\ results # <<>>
    /\ TakeResult
    /\ ctrlC' = IF ctrlC = "heard" THEN "lost" ELSE ctrlC
    /\ UNCHANGED <<dns, lookup, handler>>

(* println! is done. *)
Printed ==
    /\ dnsMain = "printing"
    /\ dnsMain' = "turn"
    /\ UNCHANGED <<dns, lookup, results, ctrlC, handler, shown>>

(* Mutant: the branch does not break. *)
BreakForgotten ==
    /\ dnsMain = "wait" /\ ctrlC = "heard"
    /\ dnsMain' = "turn" /\ ctrlC' = "none"
    /\ UNCHANGED <<dns, lookup, results, handler, shown>>

(* The loop breaks; what is queued is dropped with the receiver. *)
Break ==
    /\ dnsMain = "wait" /\ ctrlC = "heard"
    /\ dnsMain' = "ended"
    /\ results' = <<>>
    /\ UNCHANGED <<dns, lookup, ctrlC, handler, shown>>

(* SIGINT.  Once a ctrl_c() was polled, tokio has its handler and tells the *)
(* listeners there are at that moment: of one that waits, or of none.       *)
(* Before that the signal ends the process.                                 *)
Interrupt ==
    /\ dnsMain # "ended" /\ ctrlC # "heard"
    /\ \/ /\ handler
          /\ ctrlC' = IF dnsMain = "wait" THEN "heard" ELSE "lost"
          /\ UNCHANGED <<dns, results, dnsMain>>
       \/ /\ ~handler
          /\ dnsMain' = "ended"
          /\ dns' = [dns EXCEPT !.pc = "returned"]
          /\ results' = <<>>
          /\ UNCHANGED ctrlC
    /\ UNCHANGED <<lookup, handler, shown>>

Loop == Turn \/ Show \/ Printed \/ Break

DnsNext == Ask \/ Answered \/ Poll \/ DnsTick \/ Loop \/ Interrupt

DnsSpec == DnsInit /\ [][DnsNext]_dnsVars

(* The runtime polls what is due, the loop too, and time passes. *)
DnsFairness == WF_dnsVars(Poll) /\ WF_dnsVars(DnsTick) /\ WF_dnsVars(Loop)

------------------------------------------------------------------------------
(* Properties. *)

Given == {results[k] : k \in DOMAIN results} \cup {shown[k] : k \in DOMAIN shown}

(* Every variable keeps its type. *)
DnsTypeOK ==
    /\ dns.pc \in {"ask", "lookup", "returned"}
    /\ dns.domain \in 1..DnsDomains
    /\ lookup.attempt \in 1..MaxAttempts
    /\ lookup.reply \in Answers \cup {Nil}
    /\ dnsMain \in {"turn", "wait", "printing", "ended"}
    /\ handler \in BOOLEAN /\ ctrlC \in {"none", "heard", "lost"}
    /\ \A r \in Given : r.status \in {"Success", "NotFound", "Error"}

(* dns.rs:90: the outer timeout is that of one attempt, so the second one   *)
(* decides a lookup only when the first failed before its timeout: a query  *)
(* that was lost is never repeated to any effect.                           *)
RetryOnlyAfterFailure ==
    \A r \in Given : r.attempt > 1 /\ r.kind # "timeout" => r.fast

(* However many attempts there are, a lookup is reported within one timeout *)
(* and the time for which its poll may be late.                             *)
LookupBounded == \A r \in Given : r.latency <= DnsTimeout + Late

(* A lookup that failed, for want of a server, of time or of such a record, *)
(* is an error, not a missing domain.                                       *)
FailureIsNotMissing ==
    \A r \in Given : r.kind \in {"nodata", "gaveup", "timeout"} => r.status = "Error"

(* However the two timers race, a lookup ends in time, and in an error when *)
(* it failed.                                                               *)
LookupClassified == RetryOnlyAfterFailure /\ LookupBounded /\ FailureIsNotMissing

(* dns.rs:46: "NODATA — resposta `NoError` sem registros do tipo pedido — é *)
(* outra coisa e não deve ser reportada como domínio inexistente": only     *)
(* NXDOMAIN is reported as a missing domain.                                *)
ExistingIsNotMissing ==
    \A r \in Given : r.kind # "nxdomain" => r.status # "NotFound"

(* "Nunca falha com erro: tudo vira DnsQueryResult" (dns.rs:78): a lookup   *)
(* always comes to its end, whatever the servers do.                        *)
LookupEnds == dns.pc = "lookup" ~> dns.pc # "lookup"

(* A Ctrl-C that the loop hears ends the command, with a lookup under way,  *)
(* unless a result that came with it is taken in its place.                 *)
CtrlCEnds == ctrlC = "heard" ~> (dnsMain = "ended" \/ ctrlC = "lost")

(* main.rs:85: a Ctrl-C is lost to results only: until the first one is     *)
(* taken, every press ends the command, by the loop or by the signal.       *)
LostOnlyToResults == ctrlC = "lost" => shown # <<>>
==============================================================================
