------------------------------- MODULE Server -------------------------------
(***************************************************************************)
(* The process of cmd/server/main.go around the payment service: it        *)
(* connects to PostgreSQL and Redis, listens, and on a signal stops        *)
(* listening, waits for its handlers for at most 10 s, closes Redis and    *)
(* PostgreSQL and exits.  A supervisor may start it again.                 *)
(*                                                                         *)
(* main runs concurrently with the goroutine of ListenAndServe, with the   *)
(* handlers, and with the goroutines that save idempotency entries, for    *)
(* which nobody waits.  Its stage names what it does next:                 *)
(*    connect listen notify wait drain closeRedis closeDB return           *)
(***************************************************************************)
EXTENDS PaymentService

VARIABLES
    main,       \* the stage of main, "exited" when there is no process
    listener,   \* how far ListenAndServe is
    shutdownErr \* what srv.Shutdown has returned

serverVars == <<main, listener, shutdownErr>>
allVars == <<vars, serverVars>>

Starting == {"connect", "listen", "notify"}

MainStage ==
    Starting \cup {"wait", "drain", "closeRedis", "closeDB", "return", "exited"}

(* A statement or command on a closed client fails at once.                *)
RedisClosed == main \in {"closeDB", "return"}
DBClosed == main = "return"

ServerInit ==
    /\ Init
    /\ main = "exited" /\ listener = "off" /\ shutdownErr = "nil"

ServerTypeOK ==
    /\ TypeOK
    /\ main \in MainStage
    /\ listener \in {"off", "opening", "open", "draining", "closed"}
    /\ shutdownErr \in {"nil", "context.DeadlineExceeded"}

(* The payment service when its statements and commands fail, and with the *)
(* process stopping as well.                                               *)
Failing == INSTANCE PaymentService WITH Faults <- Faults \cup {"db", "redis"}
Stopping == INSTANCE PaymentService WITH Faults <- Faults \cup {"crash", "db", "redis"}

-----------------------------------------------------------------------------
(* main, until it waits for a signal.                                      *)
MainAt(stage, next) == main = stage /\ main' = next

(* The process is gone, and with it every goroutine.                       *)
Exit ==
    /\ main' = "exited" /\ listener' = "off" /\ shutdownErr' = "nil"
    /\ \/ Stopping!crash
       \/ bg = {} /\ (\A r \in Id : ~InFlight(r)) /\ UNCHANGED vars

start ==
    /\ MainAt("exited", "connect")
    /\ UNCHANGED <<vars, listener, shutdownErr>>

(* NewPostgres, then NewRedis.  When either fails, log.Fatal ends the      *)
(* process.                                                                *)
connect ==
    \/ MainAt("connect", "listen") /\ UNCHANGED <<vars, listener, shutdownErr>>
    \/ main = "connect" /\ Exit

startServer ==
    /\ MainAt("listen", "notify")
    /\ listener' = "opening"
    /\ UNCHANGED <<vars, shutdownErr>>

(* In its own goroutine: the port is bound, or it is taken, or Shutdown    *)
(* has come first and ListenAndServe returns ErrServerClosed.              *)
ListenAndServe ==
    /\ listener = "opening"
    /\ \/ /\ main \in {"notify", "wait"}
          /\ listener' = "open"
          /\ UNCHANGED <<vars, main, shutdownErr>>
       \/ main \in {"notify", "wait"} /\ Exit
       \/ /\ main \notin {"notify", "wait"}
          /\ listener' = "closed"
          /\ UNCHANGED <<vars, main, shutdownErr>>

notify ==
    /\ MainAt("notify", "wait")
    /\ UNCHANGED <<vars, listener, shutdownErr>>

(* Mutant of ShutdownListener: connections are accepted while draining.    *)
ShutdownListenerOpen == listener

(* srv.Shutdown closes the listener first.  A connection that has been     *)
(* accepted may still bring a request.                                     *)
ShutdownListener == IF listener = "open" THEN "draining" ELSE listener

(* The signal main waits for.  Later ones stay in the channel or are       *)
(* dropped.                                                                *)
signal ==
    /\ MainAt("wait", "drain")
    /\ listener' = ShutdownListener
    /\ UNCHANGED <<vars, shutdownErr>>

(* Mutant of DeadlinePassed: Shutdown is given context.Background().       *)
DeadlinePassedNever == FALSE

(* Nothing bounds a handler, so 10 s may pass before they have finished.   *)
DeadlinePassed == TRUE

(* Mutant of DeadlineErr: the error of ListenAndServe.                     *)
DeadlineErrClosed == "http.ErrServerClosed"

DeadlineErr == "context.DeadlineExceeded"

(* srv.Shutdown returns when no connection is left, or when the context is *)
(* done, with connections that are still in use; main goes on either way.  *)
Shutdown ==
    /\ MainAt("drain", "closeRedis")
    /\ \/ /\ \A r \in Id : ~InFlight(r)
          /\ listener' = IF listener = "draining" THEN "closed" ELSE listener
          /\ UNCHANGED shutdownErr
       \/ /\ DeadlinePassed
          /\ listener = "draining" \/ \E r \in Id : InFlight(r)
          /\ shutdownErr' = DeadlineErr
          /\ UNCHANGED listener
    /\ UNCHANGED vars

closeRedis ==
    /\ MainAt("closeRedis", "closeDB")
    /\ UNCHANGED <<vars, listener, shutdownErr>>

CloseDB ==
    /\ MainAt("closeDB", "return")
    /\ UNCHANGED <<vars, listener, shutdownErr>>

return == main = "return" /\ Exit

Main ==
    \/ connect \/ startServer \/ notify
    \/ Shutdown \/ closeRedis \/ CloseDB \/ return

(* The process is killed: at any time, or by a signal that comes before    *)
(* signal.Notify, when handlers may be running already.                    *)
kill ==
    /\ main # "exited"
    /\ main \in Starting \/ "crash" \in Faults
    /\ Exit

-----------------------------------------------------------------------------
(* The payment service in this process.                                    *)
Request(r) == listener \in {"open", "draining"} /\ Arrive(r) /\ UNCHANGED serverVars

(* The stages that use a client that is closed.                            *)
MeetsClosed(r) ==
    \/ DBClosed /\ pc[r] \in {"idem", "save", "read", "update", "insert"}
    \/ RedisClosed /\ pc[r] \in {"lock", "release"}

Serve(r) == ~MeetsClosed(r) /\ Handler(r) /\ UNCHANGED serverVars

(* The step fails and leaves the stores alone.  What precedes the failing  *)
(* statement, the parsing of the key or the tokenization, may fail too.    *)
ServeClosed(r) ==
    /\ MeetsClosed(r)
    /\ Failing!Handler(r)
    /\ UNCHANGED <<tables, lock, serverVars>>
    /\ CASE pc[r] = "release" -> TRUE
         [] pc[r] = "idem"    -> pc'[r] # "done" \/ err'[r] = "panic"
         [] OTHER             -> err'[r] \in {"dbError", "redisError", "ErrTokenizeCard",
                                             "ErrTransactionNotFound"}

BackgroundSave(r) == ~DBClosed /\ saveIdempotency(r) /\ UNCHANGED serverVars

BackgroundSaveClosed(r) ==
    DBClosed /\ Failing!saveIdempotency(r) /\ UNCHANGED <<idem, serverVars>>

Expire ==
    /\ \/ \E k \in Uuid : expireIdempotency(k)
       \/ \E t \in Id : expireLock(t)
    /\ UNCHANGED serverVars

ServerNext ==
    \/ start \/ Main \/ ListenAndServe \/ signal \/ kill
    \/ \E r \in Id : \/ Request(r) \/ Serve(r) \/ ServeClosed(r)
                     \/ BackgroundSave(r) \/ BackgroundSaveClosed(r)
    \/ Expire

ServerSpec == ServerInit /\ [][ServerNext]_allVars

(* main goes on when it can.  Handlers, clients and the supervisor owe     *)
(* nothing.                                                                *)
ServerFairSpec == ServerSpec /\ WF_allVars(Main)

-----------------------------------------------------------------------------
(* Properties.                                                             *)

(* A request meets a closed store only after Shutdown gave up waiting:     *)
(* requests that are served when the signal comes, in whatever state, and  *)
(* requests that race with it, on connections accepted before, are served  *)
(* with both stores open.                                                  *)
ServedWithStoresOpen ==
    (\E r \in Id : InFlight(r)) /\ main # "exited" /\ shutdownErr = "nil"
    => ~RedisClosed /\ ~DBClosed

(* While PostgreSQL itself does not fail, a statement fails on a request   *)
(* only because main has closed the database under it after Shutdown gave  *)
(* up: no request that Shutdown has waited for is left with what the       *)
(* gateway did for it unrecorded.                                          *)
FailedByDeadline ==
    [][\A r \in Id : err[r] # "dbError" /\ err'[r] = "dbError" =>
          \/ "db" \in Faults
          \/ main = "return" /\ shutdownErr = "context.DeadlineExceeded"]_allVars

(* A signal ends the process although handlers may hang: nothing main      *)
(* does after the signal depends on them.                                  *)
ShutdownEnds == main = "drain" ~> main = "exited"

=============================================================================
