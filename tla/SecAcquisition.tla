---------------------------- MODULE SecAcquisition ----------------------------
(* Fetching from the SEC: SecClient with its cache of two files per key, and *)
(* scripts/acquire_empirical_corpus.py, which turns what it fetches into     *)
(* snapshots and a manifest.  Every file is written in place: a process that *)
(* dies in between leaves it torn.                                           *)
(*                                                                           *)
(* One resource stands for the three documents of a company.  Which filing   *)
(* and which facts a snapshot takes from it is left out.                     *)
EXTENDS Integers, Sequences

CONSTANTS
    Clients,     \* processes that share one cache directory
    Jobs,        \* Jobs[c]: sequence of [key, observation]; NoObservation: only fetch
    NoObservation,
    Acquirer,    \* who runs acquire_empirical_corpus.py, started by hand; the others only fetch
    MaxRetries,  \* SecClient.max_retries
    MaxVersions, \* bound on what the SEC publishes under a key
    MaxCrashes   \* bound

ASSUME SecAssumption ==
    /\ \A c \in Clients : Len(Jobs[c]) \in Nat \ {0} /\ DOMAIN Jobs[c] = 1 .. Len(Jobs[c])
    /\ \A c \in Clients \ {Acquirer} : \A i \in DOMAIN Jobs[c] :
          Jobs[c][i].observation = NoObservation
    /\ MaxVersions \in Nat \ {0}

Keys == UNION {{Jobs[c][i].key : i \in DOMAIN Jobs[c]} : c \in Clients}
Observations ==
    (UNION {{Jobs[c][i].observation : i \in DOMAIN Jobs[c]} : c \in Clients})
        \ {NoObservation}

\* The contents of a file: 0 if there is none, otherwise the version of the
\* payload it was written from.
Published == 1 .. MaxVersions
None == 0
CutShort == -1

VARIABLES
    served,    \* the version the SEC answers with
    data, hash, \* the cache: key.json and key.sha256
    snapshots, \* snapshots/<observation>.json
    manifest,  \* corpus_manifest.json: the version each observation is listed with
    torn,      \* the manifest is being rewritten, or its writer died
    pc, job, attempt, body, expected,
    listed,    \* `observations` of a process
    crashes

onDisk == << data, hash, snapshots, manifest, torn >>
local == << pc, job, attempt, body, expected, listed >>
secVars == << served, onDisk, local, crashes >>

SecInit ==
    /\ served = 1
    /\ data = [k \in Keys |-> None] /\ hash = data
    /\ snapshots = [o \in Observations |-> None] /\ manifest = snapshots
    /\ torn = FALSE
    /\ pc = [c \in Clients |-> "idle"]
    /\ job = [c \in Clients |-> 1]
    /\ attempt = [c \in Clients |-> 0]
    /\ body = [c \in Clients |-> None] /\ expected = body
    /\ listed = [c \in Clients |-> manifest]
    /\ crashes = 0

Key(c) == Jobs[c][job[c]].key
Observation(c) == Jobs[c][job[c]].observation

\* The next job, whether this one failed or not.
Advance(c) ==
    /\ pc' = [pc EXCEPT ![c] = IF job[c] = Len(Jobs[c]) THEN "ended" ELSE "lookup"]
    /\ job' = [job EXCEPT ![c] = IF job[c] = Len(Jobs[c]) THEN @ ELSE @ + 1]
    /\ attempt' = [attempt EXCEPT ![c] = 0]

At(c, here, there) == pc[c] = here /\ pc' = [pc EXCEPT ![c] = there]

-----------------------------------------------------------------------------

\* A torn manifest is no JSON: the process ends with the parser's error.
Start(c) ==
    /\ pc[c] = "idle"
    /\ pc' = [pc EXCEPT ![c] = IF torn THEN "ended" ELSE "lookup"]
    /\ listed' = [listed EXCEPT ![c] = manifest]
    /\ UNCHANGED << served, onDisk, job, attempt, body, expected, crashes >>

\* An observation of the manifest is not acquired again.
Skip(c) ==
    /\ pc[c] = "lookup"
    /\ Observation(c) # NoObservation /\ listed[c][Observation(c)] # None
    /\ Advance(c)
    /\ UNCHANGED << served, onDisk, body, expected, listed, crashes >>

Lookup(c) ==
    /\ At(c, "lookup", IF data[Key(c)] = None THEN "request" ELSE "read_hash")
    /\ Observation(c) # NoObservation => listed[c][Observation(c)] = None
    /\ UNCHANGED << served, onDisk, job, attempt, body, expected, listed, crashes >>

\* _read_verified_cache.  A mutant: a payload without its hash is trusted.
ReadHash_Trusting(c) ==
    /\ pc[c] = "read_hash"
    /\ pc' = [pc EXCEPT ![c] = "read_data"]
    /\ expected' = [expected EXCEPT ![c] =
                        IF hash[Key(c)] \in {None, CutShort} THEN data[Key(c)] ELSE hash[Key(c)]]
    /\ UNCHANGED << served, onDisk, job, attempt, body, listed, crashes >>

ReadHash(c) ==
    /\ pc[c] = "read_hash"
    /\ IF hash[Key(c)] \in {None, CutShort}
       THEN Advance(c) /\ UNCHANGED expected
       ELSE /\ pc' = [pc EXCEPT ![c] = "read_data"]
            /\ expected' = [expected EXCEPT ![c] = hash[Key(c)]]
            /\ UNCHANGED << job, attempt >>
    /\ UNCHANGED << served, onDisk, body, listed, crashes >>

ReadData(c) ==
    /\ pc[c] = "read_data"
    /\ IF data[Key(c)] # expected[c]
       THEN Advance(c) /\ UNCHANGED body
       ELSE /\ pc' = [pc EXCEPT ![c] = "fetched"]
            /\ body' = [body EXCEPT ![c] = data[Key(c)]]
            /\ UNCHANGED << job, attempt >>
    /\ UNCHANGED << served, onDisk, expected, listed, crashes >>

Answered(c) ==
    /\ At(c, "request", "open_data")
    /\ body' = [body EXCEPT ![c] = served]
    /\ UNCHANGED << served, onDisk, job, attempt, expected, listed, crashes >>

\* HTTP 403 and other client errors, an oversized or malformed answer.
Refused(c) ==
    /\ pc[c] = "request"
    /\ Advance(c)
    /\ UNCHANGED << served, onDisk, body, expected, listed, crashes >>

\* 429, 5xx or no connection.
Faulty(c) ==
    /\ pc[c] = "request"
    /\ IF attempt[c] >= MaxRetries THEN Advance(c)
       ELSE attempt' = [attempt EXCEPT ![c] = @ + 1] /\ UNCHANGED << pc, job >>
    /\ UNCHANGED << served, onDisk, body, expected, listed, crashes >>

\* write_bytes truncates and fills the payload; then the same for its hash.
OpenData(c) ==
    /\ At(c, "open_data", "fill_data")
    /\ data' = [data EXCEPT ![Key(c)] = CutShort]
    /\ UNCHANGED << served, hash, snapshots, manifest, torn, job, attempt, body, expected,
                    listed, crashes >>

FillData(c) ==
    /\ At(c, "fill_data", "open_hash")
    /\ data' = [data EXCEPT ![Key(c)] = body[c]]
    /\ UNCHANGED << served, hash, snapshots, manifest, torn, job, attempt, body, expected,
                    listed, crashes >>

OpenHash(c) ==
    /\ At(c, "open_hash", "fill_hash")
    /\ hash' = [hash EXCEPT ![Key(c)] = CutShort]
    /\ UNCHANGED << served, data, snapshots, manifest, torn, job, attempt, body, expected,
                    listed, crashes >>

FillHash(c) ==
    /\ At(c, "fill_hash", "fetched")
    /\ hash' = [hash EXCEPT ![Key(c)] = body[c]]
    /\ UNCHANGED << served, data, snapshots, manifest, torn, job, attempt, body, expected,
                    listed, crashes >>

\* A caller that only wanted the document.
Use(c) ==
    /\ pc[c] = "fetched" /\ Observation(c) = NoObservation
    /\ Advance(c)
    /\ UNCHANGED << served, onDisk, body, expected, listed, crashes >>

OpenSnapshot(c) ==
    /\ Observation(c) # NoObservation
    /\ At(c, "fetched", "fill_snapshot")
    /\ snapshots' = [snapshots EXCEPT ![Observation(c)] = CutShort]
    /\ UNCHANGED << served, data, hash, manifest, torn, job, attempt, body, expected, listed,
                    crashes >>

FillSnapshot(c) ==
    /\ At(c, "fill_snapshot", "open_manifest")
    /\ snapshots' = [snapshots EXCEPT ![Observation(c)] = body[c]]
    /\ UNCHANGED << served, data, hash, manifest, torn, job, attempt, body, expected, listed,
                    crashes >>

OpenManifest(c) ==
    /\ At(c, "open_manifest", "fill_manifest")
    /\ listed' = [listed EXCEPT ![c][Observation(c)] = body[c]]
    /\ torn' = TRUE
    /\ UNCHANGED << served, data, hash, snapshots, manifest, job, attempt, body, expected,
                    crashes >>

FillManifest(c) ==
    /\ pc[c] = "fill_manifest"
    /\ manifest' = listed[c]
    /\ torn' = FALSE
    /\ Advance(c)
    /\ UNCHANGED << served, data, hash, snapshots, body, expected, listed, crashes >>

\* A process dies, and is started again.
Crash(c) ==
    /\ pc[c] \notin {"idle", "ended"}
    /\ crashes < MaxCrashes
    /\ crashes' = crashes + 1
    /\ pc' = [pc EXCEPT ![c] = "idle"]
    /\ job' = [job EXCEPT ![c] = 1]
    /\ attempt' = [attempt EXCEPT ![c] = 0]
    /\ UNCHANGED << served, onDisk, body, expected, listed >>

\* A filing more.
Publish ==
    /\ served < MaxVersions
    /\ served' = served + 1
    /\ UNCHANGED << onDisk, local, crashes >>

SecNext ==
    \/ Publish
    \/ \E c \in Clients :
        \/ Start(c) \/ Skip(c) \/ Lookup(c) \/ ReadHash(c) \/ ReadData(c)
        \/ Answered(c) \/ Refused(c) \/ Faulty(c)
        \/ OpenData(c) \/ FillData(c) \/ OpenHash(c) \/ FillHash(c)
        \/ Use(c) \/ OpenSnapshot(c) \/ FillSnapshot(c) \/ OpenManifest(c) \/ FillManifest(c)
        \/ Crash(c)

SecSpec == SecInit /\ [][SecNext]_secVars

-----------------------------------------------------------------------------
(* Properties *)

Resting == \A c \in Clients : pc[c] \in {"idle", "lookup", "ended"}
Readable(k) == data[k] = hash[k] /\ data[k] \in Published

(***************************************************************************)
(* What a process works with is a payload the SEC once sent in full: half  *)
(* a payload, or one whose writer died before its hash, is never used, and *)
(* a snapshot of the manifest is there, whole, and the one it was listed   *)
(* for, whichever process died where.  And a cache no process died over    *)
(* can be read again, unless two processes stored different payloads at    *)
(* the same time: refusals then have no other cause than the one the code  *)
(* names, a crash.                                                         *)
(***************************************************************************)
AcquiredIsAuthentic ==
    /\ \A c \in Clients : pc[c] = "fetched" => body[c] \in 1 .. served
    /\ \A o \in Observations :
        ~torn /\ manifest[o] # None =>
            snapshots[o] = manifest[o] /\ manifest[o] \in 1 .. served
    /\ Resting /\ crashes = 0 /\ served = 1 =>
        \A k \in Keys : data[k] # None => Readable(k)
=============================================================================
