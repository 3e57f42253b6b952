# JustDataCopier in TLA+

This directory holds a formal model of JustDataCopier (`src/`): a client
(`src/internal/client/client.go`) that sends one file over TCP to a server
(`src/internal/server/server.go`), chunk by chunk, with a resume state on the
receiver's disk and an optional comparison of hashes at the end.

## 1. Inventory

| Component | Source | State | Operations |
|---|---|---|---|
| receiver process and sessions | `server.go` | per connection: `transferState` (list of chunks, or nil), loop index, retry counter, open output file; the configuration | accept, pings, initialization, resume offer and decision, open and preallocate, request / receive / save per chunk, verification, clean-up |
| sender | `client.go` | chunk size after profiling, open source file, position in the dialogue | initialize, negotiate resume, answer chunk requests, answer the hash request, end |
| wire protocol | `protocol.go` | none of its own; buffered reader and writer of each end | commands 1..12, strings ended by a newline, context-aware reads that leave a goroutine behind |
| output directory | `filesystem.go` | `<name>`, `<name>.justdatacopier.state` | save (truncate, write), load, remove, preallocate, hash |
| network | `network.go` | profile, delay multiplier | `ProfileNetwork` on a second connection and what the client makes of it; `UpdateStats`, `GetDelay` |
| configuration | `config.go` | `Config` | `ParseFlags`, `Validate` |
| progress | `progress.go` | a counter of bytes on each end, reporter goroutine | `Start`, `Stop`, the console bar once a second |
| compression | `compression.go` | none | gzip of one chunk, if the name of the file allows |
| logging, errors | `logging.go`, `errors.go` | none | |
| process | `main.go` | signal goroutine | start, exit after a signal |

How they interact: the client dials; the server starts a goroutine
(`server.go:50`), which waits for a command with a timeout. Meanwhile the client
dials a second time, measures the round-trip time with pings, and may change its
chunk size. Then, on the first connection, the client sends the name, the size
and whether it wants verification; the server looks for a state file of that
name, offers to resume if its size and chunk size fit, and waits for the
client's decision. Then the *server* leads: it requests every chunk it lacks by offset, writes it, saves the
state. When all are there it may ask for a hash, removes the state, sends
`CmdComplete` and closes. The two ends share nothing but the connection, and
each has its **own** chunk size; two sessions for the same name share the output
file and the state file, without any exclusion.

What is hard: either end, the connection or the process can go at any point
between two steps, and the disk keeps what was done so far; a state file is
truncated before it is written; a state file describes a file that other steps
truncate and remove; goroutines of clients that are gone live on through their
retries, and goroutines of reads that timed out live on in their reader; the
server's first read races the client's profiling, and no later read of either
end has a deadline; the hash handshake has one command too many; a chunk whose
write or read is cut short leaves a part of itself in a stream that has no
frames; a chunk refused for its length leaves all of it there; what is counted
for the progress bar can end the process. `PROJECT.json` lists each at its line
under `hazards`.

What makes it correct, per component:
- sender: "success" means the receiver has this file (`IntactOnSuccess`), and
  both ends agree on it (`NoFalseSuccess`);
- the two together: what a user of the output directory is promised
  (`Delivery`, `KeepsPromise`);
- resume state: never claims more than the file holds (`ClaimsBacked`), is
  saved before the next request (`SavedBeforeNextRequest`), and is used
  (`NoChunkTwice`);
- sessions: none waits for ever (`SessionsEnd`), a run after the faults are over
  succeeds (`LastDelivers`, `RetryDelivers`);
- process: no goroutine of a session panics, which would end the others too
  (`NeverPanics`; the goroutine of a progress bar does);
- handshake: the verdict is read as what it is (`VerdictUnderstood`);
- stream of a chunk: the reads fall on the boundaries of the writes (`InFrame`),
  what is marked is whole (`StoredWhole`), both ends get through (`ExchangeEnds`);
- profiling: the server outwaits it (`ServerWaits`), no two goroutines read from
  one reader (`OneReader`), an answer is measured with its own question
  (`PongIsTheAnswer`), and no result is no change (`NoResultNoChange`);
- progress: both ends have counted the file (`CountsAddUp`).

## 2. Modules

| Module | Models | Correspondence |
|---|---|---|
| `FileData` | file contents, chunk arithmetic | A file is a function from cells (blocks of bytes) to values, with `Hole` for allocated zeros, `Eof` past the end, `Garbage` for bytes that were never file data. `WriteAt`, `TruncateTo` are what the operating system does. |
| `Wire` | the connection and its messages | Two FIFO queues per session and whether it is open. What is flushed into a closed connection is lost; a peer's close lets the other end read what was sent before; `ConnectionLost` drops both queues. |
| `Store` | output directory | The directory entry and the contents behind open files are kept apart, so a removed file can still be written by a goroutine that has it open. The state file is absent, torn or saved. |
| `Receiver` | `server.go` | `sPc[s]` is where the goroutine of session `s` stands. A step reaches from one point where something else can come in (a blocking read, a flush, a change of the disk) to the next; `os.WriteFile` is two steps. `mode[s] = "rejected"` is `transferState == nil`; `inSync[s]` is false once the goroutine reads file data as commands. |
| `Sender` | `client.go` | `cPc[s]` is where the client of session `s` stands; `clientChunk[s]` is its chunk size after `adjustConfigForNetwork`. |
| `FileTransfer` | the whole | Composes the above, adds dialling, restarts and faults, and states the properties of the transfer and the mapping to `Delivery`. |
| `Delivery` | the promise, abstractly | The output, the outcome of each run and the sessions whose receiving end may still act; no messages, chunks or states. Refined by `FileTransfer` with `output` = what the output path names, `outcome` = how the client ended, `working` = the sessions with a goroutine. |
| `Progress` | `progress.go`, the counters of `server.go` and `client.go` | Extends `FileTransfer`: each step of an end also counts, and each end may panic in its bar at any step at which it has one. |
| `ChunkStream` | `sendChunk`, `sendDataInPieces`, `receiveChunk` | The message `Data` of `Wire` in detail: a chunk as the tokens of a stream that the client writes in pieces and the server reads in parts. |
| `Tuning` | `config.go`, `network.go:198-242`, `client.go:139-153` | The arithmetic of chunk size and workers, in KiB and milliseconds. |
| `Profiling` | `network.go:123-196`, `server.go:56-104`, `protocol.go:304-336` | The time between dial and initialization, with a clock of ticks: two connections, pings, three timers of the client, one of each server goroutine, and the goroutine a timed out read leaves behind. |
| `MCFileTransfer`, `MCProgress` | instances for TLC | |
| `FileTransferProofs`, `DeliveryProofs`, `DialogueProofs`, `VerifiedProofs`, `UniformProofs` | theorems about `FileTransfer` | Section 4. |
| `ProgressProofs`, `ProfilingProofs`, `StreamProofs` | theorems about `Progress`, `Profiling`, `ChunkStream` | Section 4. |

How the three models fit together: `FileTransfer` starts a session when the
connection that carries the file is accepted, and moves a chunk in one message.
`Profiling` is what happens before its first message (the step `StartTransfer`
there is where `FileTransfer` chooses a `clientChunk`), `ChunkStream` is what
happens between one `Request` and the write of its chunk. `Profiling` shows that
the timeout that ends a waiting goroutine does not meet a client that is still
profiling. `ChunkStream` shows that a sender that gives up closes, that what it
left in the stream is never read as another chunk, and so that a chunk either
arrives whole or not at all, which is what the message of `Wire` assumes. A chunk
whose length is refused is the exception in both: `ChunkStream` has it for a length
of zero, `FileTransfer` (`inSync`) for one above the server's chunk size too.

A *session* is one run of the client. All sessions of a model send a file of
the same base name (other names share nothing on disk); which content and size
each has is a constant, so that a file can change between runs. Hashes are taken
to be as good as the content they are computed from.

Definitions marked *Mutant* are deliberately wrong versions of the definition
that follows them. They are used by no specification; with each of them in the
place of the right one TLC finds the property named in `PROJECT.json` violated,
which shows that the property can fail.

### Faults

`MaxFaults` bounds how many of these a behaviour has; each may come between any
two steps: the server process is ended (`Crash`), the connection is lost, the
client is ended, the first command does not come within the timeout, creating or
preallocating the file fails, a resumed file cannot be opened, a chunk is written
in part, the state file cannot be written (its truncation has happened), reading
the file back for the hash fails, a removal fails. The verdict on the hash may fail
to be flushed whenever the connection is gone.

When a resumed file cannot be opened, whatever the reason,
`createOrOpenOutputFile` (`server.go:311-315`) goes on to `os.Create`. If the file is
there and this succeeds, the file is truncated, while the list of received chunks
stays as it was loaded and its chunks are skipped. `ReopenFails` is this fault,
and the constant `ReopenMayFail` says whether a model has it. It is `TRUE` in
`verified` and `overlap`. It is `FALSE` in `sequential`, where its absence is a
hypothesis of `ClaimsBacked`, `UniformInv` and `IntactOnSuccess`, which are wrong
without it (section 3), and in the runs that are refuted, each of which is about
something else. `OpenOutputFails` is the case in which `os.Create` fails too.

`Overlap` says how sessions may overlap: `"never"` (the
operator waits until the server is done with the last one), `"zombie"` (a client
is started when the last has ended, whatever the server still does) or `"any"`.

## 3. What TLC checks

The runs of `FileTransfer` and `Progress` have files of three cells, which with
chunk size 2 is a full chunk and a short one, with 1 three chunks and with 3 one.
Two chunks are enough for a state that claims some but not all; two attempts per
chunk (`Retries = 2`) for one retry and for giving up. `CHECK_DEADLOCK FALSE`
where the system rests when everything it has to do is done: sessions are
finitely many, and an exchange of chunks has a last one.

Runs that pass:

| Run | Instance | States | Shows |
|---|---|---|---|
| `sequential` | 3 sessions, never overlapping, one chunk size, one file, 3 faults, a resumed file can be opened (hypothesis), fairness | 380,000 | `TypeOK`, `ClaimsBacked`, `NeverPanics`, `UniformInv`, `IntactOnSuccess`, `SavedBeforeNextRequest`, `NoChunkTwice`, `LastDelivers`: in the uniform configuration, and if a resumed file can be opened, resuming is right even without verification, and the last client gets its file through |
| `verified` | 3 sessions, chunk sizes 1 and 2 on either side (and changed by a restart), a file that is edited or emptied, 1 fault (`ReopenFails` among them), verification on both sides | 442,000 | `IntactOnSuccess`, `VerifyInv`, `SavedInv`, and `KeepsPromise`: the program implements `Delivery` |
| `overlap` | 2 sessions at any time, one with verification, progress bars, 1 fault (`ReopenFails` among them), fairness | 54,000 | `NoFalseSuccess`, `AgreeInv`, `DialogueInv`, `CountsAddUp`, `CountInv`, `SessionsEnd` |
| `profiling` | 3 pings, timers scaled down, RTT of any length, lost connections, a client that vanishes, fairness | 99,000 | `ProfilingTypeOK`, `ServerWaits`, `OneReader`, `PongIsTheAnswer`, `NoResultNoChange`, `EveryWaitEnds` |
| `chunk_stream` | 2 chunks of 3 units, every length of the source, compressed or not, 2 attempts on either end, timeouts, a broken connection, fairness | 190,000 | `StreamTypeOK`, `InFrame`, `StoredWhole`, `ExchangeEnds` |

Why these bounds. Three sessions are needed to see a state that one run leaves, a
second one mistreats and a third one trusts (`stale_state` needs exactly that).
Three faults in `sequential` allow a fault in each session, or all in one. The
faults of `verified` are fewer because its configurations are more; a fault and
an edited file between the same two runs is the case at stake. In `profiling` the
defaults (120 s for the server, 5 s for dial and pings, 100 ms between pings) are
scaled to 9, 7 and 1 ticks, with the server's timeout as tight above the client's
as the assumption `PatienceAssumption` allows, which is the hard case; a tick
stands for 100 ms when a measured time is turned into a chunk size, so
round-trip times from 0 to 700 ms occur and both sides of every threshold above 10
ms. `Workers = 1` and `CPUs = 3` are the edges of halving and doubling. In
`chunk_stream` the unit is the smallest write (`config.SmallWriteSize`), a chunk of
three takes one to three pieces as the write size moves between 1 and 4, and two
chunks are needed to have something that could be misread behind the first.

Runs that TLC refutes, each a disagreement between the code and what the
repository says (`findings` in `PROJECT.json` quotes the lines):

| Run | Property | What happens |
|---|---|---|
| `chunk_mismatch` | `IntactOnSuccess` | no fault at all: a client chunk of 1 for a server chunk of 2 fills half of each chunk, both ends report success |
| `refused_resume` | `NeverPanics` | interrupted run, next client counts other chunks and refuses: nil dereference in `processChunks` |
| `failed_verification` | `RetryDelivers` | the connection is lost during the verification; output removed, state kept; the next run verifies an empty file and fails |
| `verdict_swallowed` | `VerdictUnderstood` | the hash request of the server is read as the verdict |
| `stale_state` | `IntactOnSuccess` | an incompatible state outlives the truncation of its file |
| `lingering_session` | `ClaimsBacked` | the goroutine of a dead client writes its state into the next session |
| `progress_bar` | `NeverPanics` | a run stops after its last, short chunk was saved; the next resumes with an offset that counts that chunk in full; if the excess fills at least one of the 30 cells of the bar (here it is a third of the file), the server's bar panics at its next tick |

`chunk_mismatch` does not take an unusual configuration. With both ends at their
default of 2 MB, a link with a round-trip time above 100 ms and below about
270 ms makes `OptimalChunkSize` of `Tuning` smaller than 2 MB, and
`adjustConfigForNetwork` puts it in the place of the configured size.

More answers the model gives to anyone who changes a constant. `sequential` with
`ReopenMayFail = TRUE` refutes `ClaimsBacked`, `UniformInv` and `IntactOnSuccess`: a
run stops after its first chunk was saved, the next fails to open the file and
truncates it (`server.go:311-315`), skips the chunk, and tells the client that the
transfer is complete; the file has a hole where the chunk was. `TypeOK`,
`NeverPanics`, `SavedBeforeNextRequest`, `NoChunkTwice` and `LastDelivers` hold there
too (`LastDelivers` speaks of a run that begins after the last fault). With
`Retries = 0`, which `Validate` accepts, no chunk is ever requested and
`RetryDelivers` fails; with `FileCells <- EditedFile` and no verification
`IntactOnSuccess` fails with a file mixed from two versions of the source.

### Fairness

`FairSpec` and `FairCountedSpec` assume weak fairness of every goroutine's and
every client's steps and of the operator's restart of a stopped server. Both ends
are runnable threads that wait for nothing but their peer: the Go scheduler runs
them, and a peer that vanishes is noticed because both ends turn on TCP keep-alive
(`network.go:252-257`) and close their connection with a deferred `Close`. No
fairness is assumed of faults, of dials, or of the panics of a bar. Liveness is not
checked for a stream that is out of frame (after a chunk that was refused for its
length): there the model lets file data be read as commands, and whether a read
then finds its newline depends on the data.

`FairProfiling` assumes that time passes (`Tick`), that what is due is done before
more time passes (a timer that has run out makes a step `Urgent`; goroutines are
scheduled in far less time than a tick stands for), that a closed connection is
noticed (`ConnectionEnds`), and that the goroutine of a timed out read gets on once
its read can return. No fairness is assumed of answers: a ping may take for ever.

`FairStream` assumes that each end takes steps while it can. A blocked write is
part of that: it is accepted some time or fails, because the peer reads or its
kernel gives up.

## 4. What is proved

The proofs hold for every value of the constants allowed by the assumptions in
the modules: any number of sessions, any files and sizes, any chunk sizes, any
number of retries, faults and pings, any timeouts; where a theorem needs more of them
(`OneChunkSize`, `Verified`, `SameLayout`, `Uniform`) its ASSUME says so. They use no induction over
data and no liveness, both of which are out of the prover's reach.

- `FileTransferProofs!TypeCorrect`: `Spec => []TypeOK`. One lemma per group of
  actions; `Attempts` (the retry counter stays below `Retries`) is part of it.
- `DeliveryProofs!AgreementKept` and `Agreement`: `Spec => []AgreeInv` and
  `Spec => []NoFalseSuccess`, for any overlap and any faults. `NoFalseSuccess` is
  not inductive: a client becomes successful by reading `CmdComplete`, so the
  invariant `AgreeInv` adds that no queue towards a client holds `CmdComplete`
  unless its goroutine is through, and that there is no goroutine before the
  dial. `ServerFrame` and `ClientFrame` say once what a step of one session leaves
  alone in all the others.
- `DialogueProofs!TurnsTaken` and `NoPanic`: if both ends use one chunk size
  (`OneChunkSize`), `Spec => []DialogueInv` and `Spec => []NeverPanics`, for any
  overlap, any faults, with verification or without. `NeverPanics` of a goroutine
  of a session, that is: bars are not in `Spec`, and with them it is false (run
  `progress_bar`). Two steps can panic. `MisreadPanics` (file data read as the length
  of a compressed chunk, `server.go:491`) needs a stream that is out of frame;
  `NilStatePanic` needs a refused resume. `NeverPanics` so rests on the
  client never refusing an offer to resume, and that on the offer the client reads
  being the one the goroutine made: until the chunks are done at most one message of a
  session is under way, and it is `Asked(s)` (what the goroutine waits for the
  answer of) or `Answered(s)` (that answer). After the chunks the hash handshake does
  put two messages under way at once, and all the invariant says of that part is that
  no offer and no request is among them. Its use beyond the panic: a chunk that
  arrives is the one that was requested, with a length the server accepts, so the
  stream stays in frame. The arithmetic it needs (`Ceiling`, `ChunkBegins`,
  `AskedLength`) is proved for all sizes. Without `OneChunkSize` both are false (run
  `refused_resume`).
- `VerifiedProofs!VerifiedKept` and `VerifiedDelivery`: if both ends verify and
  sessions do not overlap (`Verified`), `Spec => []VerifyInv` and
  `Spec => IntactOnSuccess`, for all chunk sizes (different ones too) and whatever
  earlier runs left behind. The invariant `VerifyInv` says that at most one session
  is active, that every hash on its way to the server is the hash of the client's
  file, that a goroutine with an open file has open what the output path names, and
  that past the comparison that file is the client's. A goroutine then has the disk
  to itself from the comparison to the client's end. Without `Overlap = "never"` the
  theorem is false: another goroutine may truncate the file between the comparison
  and `CmdComplete`.
- `VerifiedProofs!PromiseKept`: under `Verified`, `Spec => KeepsPromise`. Initial
  states map to initial states, and each step to one of `Delivery` or to a stutter: a
  dial to `Start`, a step of a goroutine to `Work`, `CmdComplete` read by a client to
  `Deliver`, any other end of a client to `Fail`, a crash or a panic to `Stop`. The two
  conditions of `Deliver` that are not in the guards are that the goroutine is through
  (`AgreeInv`) and that the output is then the file and stays it while the client
  does not know (`Settled`). The refinement is proved from these alone
  (`StepKeepsPromise`), so it serves both configurations in which they hold.
- `UniformProofs!SavedAlways` and `SavedBeforeNext`: if sessions do not overlap,
  `Spec => []SavedInv` and `Spec => SavedBeforeNextRequest`, for any chunk sizes and
  files, verified or not. The action property needs to know, when a chunk is
  requested, that the last save was of this list: `SavedInv` says so for the whole
  loop, from the decision to resume on (where the state is what was loaded).
- `UniformProofs!NeverTwice`: under `SameLayout` (one chunk size, one size of file,
  sessions that do not overlap) `Spec => NoChunkTwice`, with verification or
  without, for edited files and for resumed files that were truncated instead of
  opened. What is on disk may then not be in the file, but it is in the list, and
  the list decides what is asked for. `ListedInv` says so: a state on disk fits every
  session (`AllFit`), so a session that starts afresh found none, and a goroutine that
  asks for chunks has all the disk claims in its own list (`ListedSession`).
- `UniformProofs!UniformKept` and its consequences `ClaimsAlwaysBacked`
  (`ClaimsBacked`), `UniformDelivery` (`IntactOnSuccess`) and `UniformPromise`
  (`KeepsPromise`): the uniform configuration (`Uniform`: one chunk size, one file,
  sessions that do not overlap, no verification, a resumed file that can be opened)
  is right to resume. `~ReopenMayFail` is in it because these four are false without
  it (section 3): the code truncates a resumed file that it cannot open and keeps the
  list. The argument: `ListBacked` holds while a
  goroutine is between opening the file and its last chunk. What the path names is
  what it has open, the list on disk is part of the list in memory, every chunk of
  that list is in the file cell for cell, and so is everything before the current
  chunk. A chunk that arrives is the requested one (`DialogueInv`), so writing it
  moves both claims on by one chunk; a chunk written in part is not marked; a crash
  leaves the list on disk, which was backed; the next session either takes it over
  (`SavedInv`) or finds no usable state and starts with an empty list. When the index
  reaches the number of chunks, every cell before the size is in place, and beyond it
  there is nothing (`UniformDisk`), so the output is the file. The hypotheses are
  needed: `chunk_mismatch`, `stale_state` and `lingering_session` are counterexamples
  with one of them less (the chunk size, the one file, the overlap), and
  `failed_verification` shows the state that outlives its output where hashes are
  compared, for which the other theorem, `VerifiedDelivery`, has the comparison (and
  no hypothesis on reopening: an output that lost its content is not the client's).
- `ProgressProofs`, about `CountedSpec`, in which a bar may end either end at any
  tick: `CountedAgreement` (`NoFalseSuccess`, for any constants), and under
  `OneChunkSize` `CountedTurns` (`DialogueInv`), `CountsKept` (`CountInv`) and
  `CountsWhole` (`CountsAddUp`), for any overlap and any faults. `CountsAddUp` only
  speaks of the end of a transfer. `CountInv` follows the counters on the way: the
  server's is that of its list in full chunks, less what is missing of the last
  chunk if that one was received in this run (a resumed run has counted it in full,
  hence the upper bound); the client's is at least the server's, also with a chunk
  under way. At the end the list holds every chunk, and its cardinality is the number
  of chunks. That the lists of all sessions and the one on disk are within the
  file's chunks, so that they are finite, is part of the invariant.
- `ProfilingProofs`: `ProfilingTypeCorrect`, `ServerOutlasts` (`ServerWaits`),
  `OneReaderAlways` (`OneReader`), `AnswersMatch` (`PongIsTheAnswer`) and
  `DefaultsChangeNothing` (`NoResultNoChange`), from `TimingAssumption` and
  `PatienceAssumption`. `ProfilingInv` conjoins five parts. `Budget`: while
  the client dials, the server's timer is at least `Timeout - DialTimeout` ahead of
  the client's; while it pings, ahead of the context's by what `PatienceAssumption`
  leaves, a pause included. `ReadersApart`: an orphan in a reader means that its
  owner has left that reader for good. `OnePing`: at most one ping or pong is under
  way and it carries the last number. `Configured`: the configuration changes
  in the step to `init` only.
- `StreamProofs`: `StreamTypeCorrect` (`StreamTypeOK`), `AlwaysInFrame` (`InFrame`)
  and `OnlyWholeChunks` (`StoredWhole`), from `StreamAssumption` alone: any number and
  size of chunks, any number of retries on either end. The stream has no frames,
  so the invariant `StreamInv` supplies them: `Tok(c, j)` is token `j` of the message
  of the current chunk with a payload of `c` units, `Consumed` how many the server has
  read, and what is in the stream are the tokens after those (`InMessage`). While the
  connection stands, the client's position says how many it has written (`Sending`);
  once it is lost nothing is appended any more, and the server can only run out of
  tokens. So an attempt of the server that fails leaves an empty stream to the next
  one. A chunk of no units (`Refused`) never gets past its length.

TLC has checked each of these invariants on the instances of section 3: `AgreeInv`,
`DialogueInv` and `CountInv` in `overlap`, `VerifyInv` and `SavedInv` in `verified`,
`UniformInv` in `sequential`; `ProfilingInv` and `StreamInv` were checked on the
instances of `profiling` and `chunk_stream` before they were proved.

Every invariant and every action property of a passing run is thus a theorem, under
the hypotheses named above. Only model-checked: all liveness (`SessionsEnd`,
`LastDelivers`, `EveryWaitEnds`, `ExchangeEnds`), which is out of the prover's reach.
`ReopenFails` and `MisreadPanics` are
in `verified` and, the first, in `overlap`. Of the runs that are refuted, `chunk_mismatch`, `stale_state`, `lingering_session` and
`refused_resume` are counterexamples to a theorem above with one hypothesis less, and
`progress_bar` to `NoPanic` where bars are drawn.

## 5. Not modelled

- `UpdateStats` and `GetDelay` (`network.go:49-120`): a controller in floating point
  whose only effect is the length of a pause. A pause is time that passes, and no
  property of a transfer depends on it. `ChunkStream` takes the speed of each piece
  as a choice, so its adaptive write size is modelled in full.
- Parsing of flags and the defaults of `config.go`; `Validate` is the
  assumption a model makes on its constants.
- The formatting and parsing of strings and numbers in `protocol.go`, the command
  for the version that nobody sends, and the limits on the length of a string.
- gzip itself: `ChunkStream` takes a compressed chunk as a payload of its own length
  whose decompression may come out short or fail.
- `filepath.Base` of the announced name, and names in general: one base name per
  model. Two clients with different names do not meet.
- A state file that is there and cannot be opened at all, for lack of permission for one.
  That it can be is a hypothesis of every theorem on the state. A save would leave the
  last state whole, where `TruncateState` always truncates first, as `os.WriteFile` does
  once it has the file open; a load would take it for absent, and the fresh transfer
  would truncate the file that the state on disk goes on describing until the first
  save, as in `stale_state`.
- A source file that changes *while* it is sent (one that was shortened before is in `ChunkStream`);
  a power failure that loses the page cache (a crash is the end of the process; what
  was written stays).
- The list of chunks sent to the client with the offer: it is read and dropped.
- Speeds: how fast a link is relative to the timeout of a chunk.
- The exit status of the process and the half second before it (`main.go:88`).
- Logging and error types: lines and texts. All a caller asks of an error is
  whether it is nil.
- What a stream out of frame says when it falls back on a message boundary: file data
  that happens to read as a chunk is `MisreadChunk`, `MisreadPanics` or an error, and the
  stream stays out of frame from there on.

## 6. Plan

What is left, in this order:

1. The part of the stream that is out of frame: with different chunk sizes, what a
   goroutine that reads file data as commands can still be proved to leave alone.
2. `DurableStore`: `Store` with a page cache and power failures.
3. The delay controller on a grid of rates, with the bounds of the multiplier as a
   theorem.
4. The signal goroutine and the exit status.
