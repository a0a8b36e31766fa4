------------------------------ MODULE MapReduce ------------------------------
(***************************************************************************)
(* Samples/MapReduceActors: a pipeline of actors that counts the words of  *)
(* a book.  The parser sends batches of lines to the mappers in turn, each *)
(* mapper its dictionary to the reducer when it completes, the reducer the *)
(* sum to the writer.  Completion runs down the pipeline, a blocking call  *)
(* of Complete in the OnCompleted of the stage before.                     *)
(*                                                                         *)
(* A line stands for the words in it: a batch of lines and a dictionary    *)
(* are functions, which tell how often a line is in them.                  *)
(***************************************************************************)
EXTENDS Integers, Sequences, FiniteSets

CONSTANTS HardwareThreads,   (* thread::hardware_concurrency()             *)
          Lines,             (* the lines of the book that are not empty   *)
          BatchSize          (* LINE_BATCH_SIZE                            *)

(* hardware_concurrency may return 0, "if the value is not computable":    *)
(* then there is no mapper, and the parser divides by zero.                *)
ASSUME MapReduceAssumption == /\ HardwareThreads \in Nat \ {0}
                              /\ Lines \in Nat
                              /\ BatchSize \in Nat \ {0}

MIN_THREADS == 8
DefaultPoolSizeOfHardware == HardwareThreads
DefaultPoolSize ==
  IF HardwareThreads * 2 > MIN_THREADS THEN HardwareThreads * 2 ELSE MIN_THREADS

Mapper(n) == <<"mapper", n>>
Mappers == {Mapper(n) : n \in 1..HardwareThreads}
Parser == <<"parser", 0>>
Reducer == <<"reducer", 0>>
Writer == <<"writer", 0>>
Pipeline == Mappers \cup {Parser, Reducer, Writer}

VARIABLES mail, handled, phase, busy, calls,
          dictionary,              (* _wordsDictionary, _aggregatedWords   *)
          completedCallsRequired   (* _completedCallsRequired              *)

INSTANCE ActorPolicy WITH Actors <- Pipeline, PoolSize <- DefaultPoolSize

mvars == <<mail, handled, phase, busy, calls, dictionary, completedCallsRequired>>

-----------------------------------------------------------------------------
(* What each function and each OnCompleted calls.                          *)

Book == [l \in 1..Lines |-> 1]
FullBatches == Lines \div BatchSize
BatchOf(l) == (l - 1) \div BatchSize + 1
Batch(k) == [l \in 1..Lines |-> IF BatchOf(l) = k THEN 1 ELSE 0]
MapperOf(k) == Mapper(((k - 1) % HardwareThreads) + 1)

(* ProcessBook: the lines that do not fill a last batch are not sent.      *)
ProcessBook == [k \in 1..FullBatches |-> Schedule(MapperOf(k), Batch(k))]

Function(a) == IF a = Parser THEN ProcessBook ELSE <<>>

(* What a mapper counts in its batches, and the reducer adds up.           *)
CountWords(a) ==
  dictionary' =
    IF a \in Mappers \cup {Reducer}
      THEN [dictionary EXCEPT ![a] = [l \in 1..Lines |-> @[l] + Head(mail[a])[l]]]
      ELSE dictionary

(* The stages' OnCompleted.                                                *)
ParserCompleted == [n \in 1..HardwareThreads |-> CompleteCall(Mapper(n))]

MapperCompletedSwapped(a) ==
  <<CompleteCall(Reducer), Schedule(Reducer, dictionary[a])>>

MapperCompleted(a) == <<Schedule(Reducer, dictionary[a]), CompleteCall(Reducer)>>

ReducerCompleted == <<Schedule(Writer, dictionary[Reducer]), CompleteCall(Writer)>>

CompletedCalls(a) ==
  CASE a = Parser -> ParserCompleted
    [] a \in Mappers -> MapperCompleted(a)
    [] a = Reducer -> ReducerCompleted
    [] a = Writer -> <<>>

(* Run: then the actors are destroyed, the one declared last first.        *)
DestroyActors == <<DestroyCall(Parser)>>
                   \o [n \in 1..HardwareThreads |-> DestroyCall(Mapper(n))]
                   \o <<DestroyCall(Reducer), DestroyCall(Writer)>>

Run == <<Schedule(Parser, Book), AwaitFirst(Parser), CompleteCall(Parser),
         AwaitCompletion(Writer)>> \o DestroyActors

MapReduceInit == /\ PolicyInit(Run)
                 /\ dictionary = [a \in Mappers \cup {Reducer} |-> [l \in 1..Lines |-> 0]]
                 /\ completedCallsRequired = HardwareThreads

(* The reducer completes with the call of the last mapper.  A destructor   *)
(* does not ask it: the CanCompleteNow it calls is that of ActorPolicy.    *)
CallComplete(t) ==
  /\ Calls(t, {"complete", "destroy"})
  /\ IF To(t) = Reducer /\ Head(calls[t]).op = "complete"
       THEN /\ completedCallsRequired' = completedCallsRequired - 1
            /\ BeginComplete(t, completedCallsRequired = 1)
       ELSE BeginComplete(t, TRUE) /\ UNCHANGED completedCallsRequired

MakeCall(t) ==
  /\ \/ CallComplete(t)
     \/ (ScheduleFunction(t) \/ WaitReturns(t)) /\ UNCHANGED completedCallsRequired
  /\ UNCHANGED dictionary

ActorStep(a) ==
  /\ \/ MessageDone(a) /\ CountWords(a)
     \/ /\ \/ TakeMessage(a, Function(a)) \/ Drained(a)
           \/ OnCompleted(a, CompletedCalls(a)) \/ OnCompletedDone(a)
        /\ UNCHANGED dictionary
  /\ UNCHANGED completedCallsRequired

MapReduceNext == \/ \E t \in Threads : MakeCall(t)
                 \/ \E a \in Pipeline : ActorStep(a)

MapReduceSafeSpec == MapReduceInit /\ [][MapReduceNext]_mvars

(* Threads run, and the pool runs what it is given.                        *)
MapReduceSpec == /\ MapReduceSafeSpec
                 /\ \A t \in Threads : WF_mvars(MakeCall(t))
                 /\ \A a \in Pipeline : WF_mvars(ActorStep(a))

-----------------------------------------------------------------------------
(* What is written, once, is the whole count: every line of every full     *)
(* batch exactly once, whatever mapper it came to and in whatever order    *)
(* the mappers are done; Run does not return before it is written.         *)
CountedOnce ==
  handled[Writer] # <<>> \/ calls[Main] = <<>> =>
    /\ Len(handled[Writer]) = 1
    /\ \A l \in 1..Lines :
         handled[Writer][1][l] = IF l <= FullBatches * BatchSize THEN 1 ELSE 0

Destroyed(a) == \A n \in 1..Len(calls[Main]) : calls[Main][n].to # a

(* An actor that Run has destroyed has nothing left to do, and nobody is   *)
(* still to call it: the raw pointers the stages keep do not dangle.       *)
DestroyedIsDone ==
  \A a \in Pipeline : Destroyed(a) =>
    /\ phase[a] = "completed" /\ mail[a] = <<>> /\ a \notin busy
    /\ \A t \in Threads : \A n \in 1..Len(calls[t]) : calls[t][n].to # a

(* The calls of Complete that block threads of the pool do not use it up:  *)
(* Run returns.                                                            *)
Finishes == <>(calls[Main] = <<>>)

-----------------------------------------------------------------------------
(* What the two safety properties rest on.  The types.                     *)

Counts == [1..Lines -> Nat]
CallRecord == [op : {"schedule"}, to : Pipeline, what : Counts]
             \cup [op : {"complete", "destroy", "awaitFirst", "awaitCompletion"},
                   to : Pipeline, what : {<<>>}]

MapReduceTypeOK ==
  /\ mail \in [Pipeline -> Seq(Counts)]
  /\ handled \in [Pipeline -> Seq(Counts)]
  /\ phase \in [Pipeline -> {"started", "draining", "stopped", "completing", "completed"}]
  /\ busy \in SUBSET Pipeline
  /\ calls \in [Threads -> Seq(CallRecord)]
  /\ dictionary \in [Mappers \cup {Reducer} -> Counts]
  /\ completedCallsRequired \in Int

(* Run: where it is before the parser has completed, and after.            *)
BeforeComplete == {Run, Tail(Run), Tail(Tail(Run))}
InComplete == <<AwaitCompletion(Parser)>> \o Tail(Tail(Tail(Run)))

MainSound ==
  /\ phase[Parser] = "started" <=> calls[Main] \in BeforeComplete
  /\ phase[Parser] \notin {"started", "completed"} => calls[Main] = InComplete
  /\ phase[Parser] = "completed" =>
       \A n \in 1..Len(calls[Main]) : calls[Main][n].op \in {"awaitCompletion", "destroy"}

(* The parser has one message, and completes after it; while it runs it,   *)
(* it has the last calls of it still to make.                              *)
ParserSound ==
  /\ Len(handled[Parser]) + Len(mail[Parser]) = IF calls[Main] = Run THEN 0 ELSE 1
  /\ phase[Parser] # "started" \/ calls[Main] = Tail(Tail(Run)) => handled[Parser] # <<>>
  /\ LET todo == calls[Handler(Parser)]
     IN  /\ Len(todo) <= FullBatches
         /\ \A n \in 1..Len(todo) : todo[n] = ProcessBook[FullBatches - Len(todo) + n]

(* A queue is empty once it has stopped, no function of another actor than *)
(* the parser makes calls, and only OnCompleted does else.                 *)
PhaseFits(a) ==
  /\ a \in busy => mail[a] # <<>>
  /\ phase[a] \in {"stopped", "completing", "completed"} => mail[a] = <<>>
  /\ a # Parser \/ a \notin busy => calls[Handler(a)] = <<>>
  /\ phase[a] # "completing" \/ a = Writer => calls[Completed(a)] = <<>>

PhaseSound == \A a \in Pipeline : PhaseFits(a)

(* Who completes has been told to by the stage before, which waits for it. *)
ToldBy(a, calling) == \E n \in 1..Len(calls[calling]) : calls[calling][n].to = a

MapperTold(m) ==
  /\ phase[m] # "started" => phase[Parser] \in {"completing", "completed"}
  /\ phase[Parser] = "completing" => phase[m] = "completed" \/ ToldBy(m, Completed(Parser))
  /\ phase[Parser] = "completed" => phase[m] = "completed"

(* The calls of the parser's OnCompleted, of a mapper's, of the reducer's. *)
Awaits(a, to) == calls[Completed(a)] = <<AwaitCompletion(to)>>
HasSent(a) == phase[a] = "completed" \/
              (phase[a] = "completing" /\ (calls[Completed(a)] = <<>>
                                           \/ Head(calls[Completed(a)]).op # "schedule"))
HasCompleted(a) == phase[a] = "completed" \/
                   (phase[a] = "completing" /\ (calls[Completed(a)] = <<>>
                                    \/ Head(calls[Completed(a)]).op = "awaitCompletion"))

CompletedFits(a, to, what) ==
  calls[Completed(a)] \in {<<Schedule(to, what), CompleteCall(to)>>, <<CompleteCall(to)>>,
                           <<AwaitCompletion(to)>>, <<>>}

(* A mapper's share of the lines, and all that are sent.                   *)
Goes(l) == BatchOf(l) <= FullBatches
Share(m) == [l \in 1..Lines |-> IF Goes(l) /\ MapperOf(BatchOf(l)) = m THEN 1 ELSE 0]
Whole == [l \in 1..Lines |-> IF Goes(l) THEN 1 ELSE 0]

StagesSound ==
  /\ \A n \in 1..Len(calls[Completed(Parser)]) :
       calls[Completed(Parser)][n] \in {CompleteCall(m) : m \in Mappers}
                                         \cup {AwaitCompletion(m) : m \in Mappers}
  /\ \A m \in Mappers : MapperTold(m) /\ CompletedFits(m, Reducer, Share(m))
  /\ CompletedFits(Reducer, Writer, Whole)

(* The reducer is told by the last of the mappers, which waits for it; it  *)
(* tells the writer, and waits for it.                                     *)
NotCompleted == {m \in Mappers : ~HasCompleted(m)}

ReducerSound ==
  /\ completedCallsRequired = Cardinality(NotCompleted) \/ phase[Parser] = "completed"
  /\ phase[Reducer] = "started" <=> NotCompleted # {}
  /\ \/ phase[Reducer] \in {"started", "completed"}
     \/ \E m \in Mappers : phase[m] = "completing" /\ Awaits(m, Reducer)
  /\ phase[Writer] = "started" <=> ~HasCompleted(Reducer)
  /\ \/ phase[Writer] \in {"started", "completed"}
     \/ phase[Reducer] = "completing" /\ Awaits(Reducer, Writer)

(* The batches that were sent.                                             *)
BatchesSent ==
  IF Parser \in busy THEN FullBatches - Len(calls[Handler(Parser)])
  ELSE IF handled[Parser] = <<>> THEN 0 ELSE FullBatches

Received(a) == handled[a] \o mail[a]
Has(s, l) == \E n \in 1..Len(s) : s[n][l] = 1

(* What came to an actor: every line at most once, and it counts those     *)
(* that it has handled.                                                    *)
CountsOnce(a) ==
  /\ Received(a) \in Seq([1..Lines -> {0, 1}])
  /\ \A l \in 1..Lines : \A m, n \in 1..Len(Received(a)) :
       Received(a)[m][l] = 1 /\ Received(a)[n][l] = 1 => m = n
  /\ dictionary[a] = [l \in 1..Lines |-> IF Has(handled[a], l) THEN 1 ELSE 0]

(* What has come is what was sent, from stage to stage.                    *)
DictionarySound ==
  /\ \A m \in Mappers :
       /\ CountsOnce(m)
       /\ \A l \in 1..Lines : Has(Received(m), l) <=>
                                BatchOf(l) <= BatchesSent /\ MapperOf(BatchOf(l)) = m
  /\ CountsOnce(Reducer)
  /\ \A l \in 1..Lines : Has(Received(Reducer), l) <=>
                           Goes(l) /\ HasSent(MapperOf(BatchOf(l)))
  /\ Received(Writer) = IF HasSent(Reducer) THEN <<Whole>> ELSE <<>>

MapReduceInv == /\ MapReduceTypeOK /\ MainSound /\ ParserSound /\ PhaseSound
                /\ StagesSound /\ ReducerSound /\ DictionarySound
=============================================================================
