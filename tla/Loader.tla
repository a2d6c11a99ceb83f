--------------------------------- MODULE Loader ---------------------------------
(***************************************************************************)
(* The agent process (cmd/agent/main.go) and ebpf.Loader: loading and      *)
(* attaching the eBPF programs, the reader goroutine of Run with its       *)
(* watcher, and shutdown.  The kubelet starts the process again whenever   *)
(* it has ended, however it ended.                                         *)
(*                                                                         *)
(* What a record does to the samples is the Agent module's; here Run is    *)
(* only where the reader goroutine stands.                                 *)
(***************************************************************************)
EXTENDS Integers, Sequences

VARIABLES
    main,        \* where main stands; "down" when there is no process
    held,        \* the kernel resources the process holds
    toClose,     \* what the return under way closes yet, in its order
    cancelled,   \* ctx.Err() # nil
    loop         \* where the goroutine of Loader.Run stands

loaderVars == <<main, held, toClose, cancelled, loop>>

\* What Load acquires, in its order.
Resources == <<"coll", "send", "recv", "reader">>

\* What Close releases, in its order: the collection is not among it.
Released == <<"reader", "send", "recv">>

\* Mutant: without its reader, Load closes the receive probe and the collection.
MutantErrorPaths ==
    << <<>>, <<"coll">>, <<"send", "coll">>, <<"recv", "coll">> >>

\* What Load closes when acquiring the i-th of the resources fails.
ErrorPaths ==
    << <<>>, <<"coll">>, <<"send", "coll">>, <<"recv", "send", "coll">> >>

LoaderInit == /\ main = "down" /\ held = {} /\ toClose = <<>>
              /\ cancelled = FALSE /\ loop = "none"

\* Load is about to acquire the i-th of the resources.
Acquires(i) ==
    main = "loading" /\ \A j \in DOMAIN Resources : Resources[j] \in held <=> j < i

Start == /\ main = "down" /\ main' = "loading"
         /\ UNCHANGED <<held, toClose, cancelled, loop>>

\* The next of the resources is acquired; with the last one Load returns, main
\* starts the goroutines and waits for a signal.
Load ==
    /\ \E i \in DOMAIN Resources :
          /\ Acquires(i)
          /\ held' = held \cup {Resources[i]}
          /\ main' = IF i = Len(Resources) THEN "serving" ELSE main
          /\ loop' = IF i = Len(Resources) THEN "created" ELSE loop
    /\ UNCHANGED <<toClose, cancelled>>

\* Acquiring it fails, the first one also because the object file cannot be read.
\* (The file is closed on every path, and left out.)
LoadFails ==
    /\ \E i \in DOMAIN Resources : Acquires(i) /\ toClose' = ErrorPaths[i]
    /\ main' = "failing"
    /\ UNCHANGED <<held, cancelled, loop>>

\* SIGINT or SIGTERM: cancel, then server.Shutdown with its five seconds.
Signal ==
    /\ main = "serving"
    /\ cancelled' = TRUE /\ main' = "shutdown"
    /\ UNCHANGED <<held, toClose, loop>>

\* Shutdown returns, and with it main: loader.Close is deferred.
Return ==
    /\ main = "shutdown" /\ main' = "closing"
    /\ toClose' = Released
    /\ UNCHANGED <<held, cancelled, loop>>

\* An error path of Load, or Loader.Close, closes the next of what it lists.  The
\* watcher may have closed the reader before: the error is put aside.
CloseNext ==
    /\ toClose # <<>>
    /\ held' = held \ {Head(toClose)}
    /\ toClose' = Tail(toClose)
    /\ UNCHANGED <<main, cancelled, loop>>

\* Load, or Close, has closed what it lists and returns.
Unwound ==
    /\ toClose = <<>>
    /\ \/ main = "failing" /\ main' = "failed"
       \/ main = "closing" /\ main' = "closed"
    /\ UNCHANGED <<held, toClose, cancelled, loop>>

\* The process ends: main returned after Close, os.Exit(1) after a failed Load or
\* an HTTP server error, or it was killed.  The kernel frees what it held.
Exit ==
    /\ main # "down"
    /\ main' = "down" /\ held' = {} /\ toClose' = <<>>
    /\ cancelled' = FALSE /\ loop' = "none"

-----------------------------------------------------------------------------
(* The goroutines of Run.                                                  *)

\* Run begins, and starts its watcher.
Begin == /\ loop = "created" /\ loop' = "reading"
         /\ UNCHANGED <<main, held, toClose, cancelled>>

\* The watcher: <-ctx.Done(), then Reader.Close.
Watch ==
    /\ loop \notin {"none", "created"} /\ cancelled /\ "reader" \in held
    /\ held' = held \ {"reader"}
    /\ UNCHANGED <<main, toClose, cancelled, loop>>

\* Reader.Read on a closed reader.
ReadClosed ==
    /\ loop = "reading" /\ "reader" \notin held
    /\ loop' = "failed"
    /\ UNCHANGED <<main, held, toClose, cancelled>>

\* Reader.Read fails though the reader is open.
ReadFails ==
    /\ loop = "reading" /\ "reader" \in held
    /\ loop' = "failed"
    /\ UNCHANGED <<main, held, toClose, cancelled>>

\* Mutant: every error ends the loop.
MutantGivesUp == TRUE

\* Mutant: the loop does not ask whether the context was cancelled.
MutantKeepsReading == FALSE

\* Whether the loop returns after an error.
EndsLoop == cancelled

\* The error path of Run: return when cancelled, else sleep and read again.
HandleError ==
    /\ loop = "failed"
    /\ loop' = IF EndsLoop THEN "returned" ELSE "reading"
    /\ UNCHANGED <<main, held, toClose, cancelled>>

LoaderStep == \/ Start \/ Load \/ LoadFails \/ Signal \/ Return \/ Unwound
              \/ Begin \/ Watch \/ ReadClosed \/ ReadFails \/ HandleError

=============================================================================
