------------------------------ MODULE Fetcher ------------------------------
(***************************************************************************)
(* The CT fetchers of log-server/dt-structures/server/fetcher.go, one per  *)
(* source log (run-server/main.go starts fetcher i for log index i), and   *)
(* the bounded channel they share with the worker (StartWorker).           *)
(*                                                                         *)
(* A certificate is abstracted to its names after NormalizeDomainName: a   *)
(* record of its DNS names and its common name, each either a domain of    *)
(* Domains or InvalidName (a name normalization rejects).  Several raw     *)
(* names of one certificate may normalize to the same domain.  A JSON      *)
(* entry carries no name at all.                                          *)
(***************************************************************************)
EXTENDS DTCommon, SequencesExt

CONSTANTS
  InvalidName,     \* stands for any name NormalizeDomainName rejects
  NumLogs,         \* number of source CT logs, indices 0..NumLogs-1
  MaxTreeSize,     \* bound on the size of every source CT log
  CertShapes,      \* the certificates a log may contain
  BufferSize       \* WorkerConfig.BufferSize, capacity of the channel

ASSUME NumLogs \in Nat \ {0} /\ MaxTreeSize \in Nat \ {0}
ASSUME BufferSize \in Nat \ {0}
ASSUME InvalidName \notin Domains

Logs == 0..NumLogs - 1
Name == Domains \cup {InvalidName}
Cert == [dns : Seq(Name), cn : Name]
ASSUME CertShapes \subseteq Cert

\* WorkerTransaction: the log, its new STH size, and for every domain the
\* CT indices of the batch's certificates naming it (<<>> if none).
Transaction == [log : Logs, size : 1..MaxTreeSize, idx : [Domains -> Seq(Nat)]]

VARIABLES
  fetched,         \* opts.StartIndex of each fetcher: size of its last STH sent
  chan,            \* the worker's channel, a FIFO of transactions
  ctLog,           \* history: the certificates each log held when fetched
  fetcherState     \* "running", or "stopped" once FetchLogForWorker returned

fetcherVars == <<fetched, chan, ctLog, fetcherState>>

FetcherInit ==
  /\ fetched = [k \in Logs |-> 0]
  /\ chan = <<>>
  /\ ctLog = [k \in Logs |-> <<>>]
  /\ fetcherState = [k \in Logs |-> "running"]

\* The normalized names the bucketing loop files a certificate under, with
\* repetitions: every valid DNS name, then the common name if valid.
CertNames(c) == SelectSeq(c.dns \o <<c.cn>>, LAMBDA n : n \in Domains)

\* processFetcherBatch: for the certificates at CT indices start,
\* start+1, ..., append the index to the list of every name it carries,
\* once per occurrence of the name.
Bucket(certs, start) ==
  [d \in Domains |->
     FlattenSeq([i \in 1..Len(certs) |->
       LET n == Len(SelectSeq(CertNames(certs[i]), LAMBDA x : x = d))
       IN [j \in 1..n |-> start + i - 1]])]

\* runFetcherIteration: Prepare finds an STH larger than the start index,
\* the batch [start, size) is fetched and bucketed, and the transaction is
\* sent on the channel (the send blocks while the channel is full); the
\* start index then moves to the STH size.  An STH that has not grown and
\* an iteration that fails and is retried change nothing.
FetcherIteration(k) ==
  /\ fetcherState[k] = "running"
  /\ \E size \in fetched[k] + 1..MaxTreeSize :
     \E certs \in [1..size - fetched[k] -> CertShapes] :
       /\ Len(chan) < BufferSize
       /\ chan' = Append(chan, [log |-> k, size |-> size,
                                idx |-> Bucket(certs, fetched[k])])
       /\ fetched' = [fetched EXCEPT ![k] = size]
       /\ ctLog' = [ctLog EXCEPT ![k] = @ \o certs]
  /\ UNCHANGED fetcherState

\* An entry LogEntryFromLeaf cannot decode: the certificate names nothing.
Undecodable == [dns |-> <<>>, cn |-> InvalidName]

\* Mutant: the batch gathered before the bad entry is sent anyway (the
\* processErr check dropped), covering the whole STH.
FetcherDecodeErrorSendPartial(k) ==
  /\ fetcherState[k] = "running"
  /\ \E size \in fetched[k] + 1..MaxTreeSize :
     \E certs \in [1..size - fetched[k] -> CertShapes] :
     \E bad \in 1..Len(certs) :
       /\ Len(chan) < BufferSize
       /\ chan' = Append(chan, [log |-> k, size |-> size,
                                idx |-> Bucket(SubSeq(certs, 1, bad - 1), fetched[k])])
       /\ fetched' = [fetched EXCEPT ![k] = size]
       /\ ctLog' = [ctLog EXCEPT ![k] = @ \o [certs EXCEPT ![bad] = Undecodable]]
  /\ fetcherState' = [fetcherState EXCEPT ![k] = "stopped"]

\* Prepare finds a larger STH and an entry of the batch fails to decode:
\* processFetcherBatch calls cancel() on the context FetchLogForWorker
\* made, runFetcherIteration returns the error without sending, and the
\* next iteration (or f.Run) returns ctx.Err(), on which the loop returns:
\* the fetcher of log k stops for good.  Nothing of the batch is sent.
FetcherDecodeError(k) ==
  /\ fetcherState[k] = "running"
  /\ fetched[k] < MaxTreeSize
  /\ fetcherState' = [fetcherState EXCEPT ![k] = "stopped"]
  /\ UNCHANGED <<fetched, chan, ctLog>>

=============================================================================
