------------------------------ MODULE CryptoSuite ------------------------------
(***************************************************************************)
(* The software cryptographic suite (bccsp/sw, and the wrapper of          *)
(* pkg/core/cryptosuite) with its stores of keys. Users are goroutines, or *)
(* processes that share the directory of the keys; nothing locks it.       *)
(*                                                                         *)
(* A key is a secret key, the public key of one, or a symmetric key. The   *)
(* SKI of a secret key is that of its public key, and names their files.   *)
(* What a key does with a message is left to the library; of the ciphers   *)
(* the lengths are kept, in blocks of BlockSize.                           *)
(***************************************************************************)
EXTENDS Naturals, Sequences

CONSTANTS Users, Materials, Kinds, BlockSize, MaxLength, MaxCalls, MaxFaults, None, Torn

VARIABLES
  calls,   \* of each user: at, op, key (in hand), ski (looked for), suffix, result
  store,   \* kind (file, memory, dummy), files (name -> None, Torn or a key), others
           \* (secret keys in files of other names), memory (SKI -> None or a key)
  text,    \* the buffer of a ciphertext: at, length (of the plaintext), last (its
           \* padding), result
  counts   \* calls, faults: to their bounds

vars == <<calls, store, text, counts>>

Keys == [of : Materials, is : {"sk", "pk", "key"}]
Ski(k) == <<IF k.is = "key" THEN "sm4" ELSE "sm2", k.of>>
SKIs == {Ski(k) : k \in Keys}
Suffixes == {"key", "pk", "sk"}
\* slip: the file is named by the SKI alone
NameOfSki(k) == <<Ski(k), "sk">>
Name(k) == <<Ski(k), k.is>>
Names == SKIs \X Suffixes

CryptoAssumption ==
  /\ {BlockSize, MaxLength, MaxCalls, MaxFaults} \subseteq Nat /\ BlockSize # 0
  /\ {None, Torn} \cap Keys = {} /\ None \notin {"get", "ok"}

NoCall == [at |-> "idle", op |-> None, key |-> None, ski |-> None, suffix |-> None,
           result |-> None]
Init ==
  /\ calls = [u \in Users |-> NoCall]
  /\ store \in [kind : Kinds, files : {[n \in Names |-> None]},
                others : SUBSET [of : Materials, is : {"sk"}],
                memory : {[s \in SKIs |-> None]}]
  /\ text = [at |-> "none", length |-> 0, last |-> 0, result |-> None]
  /\ counts = [calls |-> 0, faults |-> 0]

At(u, s) == calls[u].at = s
Call == counts.calls < MaxCalls /\ counts' = [counts EXCEPT !.calls = @ + 1]
Ends(u, r) == [calls EXCEPT ![u] = [NoCall EXCEPT !.op = calls[u].op, !.ski = calls[u].ski,
                                                  !.key = calls[u].key, !.result = r]]
Result(u) == calls[u].result

-----------------------------------------------------------------------------
(* KeyGen and KeyImport: the key, then StoreKey unless it is ephemeral     *)

Begin(u, op, k, ephemeral) ==
  /\ At(u, "idle") /\ Call /\ UNCHANGED <<store, text>>
  /\ calls' = [calls EXCEPT ![u] =
       [NoCall EXCEPT !.op = op, !.key = k, !.at = IF ephemeral THEN "idle" ELSE "store",
                      !.result = IF ephemeral THEN "ok" ELSE None]]
\* A generated key is a secret or a symmetric one that nobody has.
KeyGen(u, k, ephemeral) ==
  /\ k.is # "pk" /\ store.files[Name(k)] = None /\ store.memory[Ski(k)] = None
  /\ \A o \in store.others : Ski(o) # Ski(k)
  /\ Begin(u, "generate", k, ephemeral)
KeyImport(u, k, ephemeral) == Begin(u, "import", k, ephemeral)

StoreNowhere(u) ==
  /\ At(u, "store") /\ store.kind = "dummy" /\ calls' = Ends(u, "error")
  /\ UNCHANGED <<store, text, counts>>
\* The key in memory is not replaced.
StoreInMemory(u) ==
  LET k == calls[u].key IN
  /\ At(u, "store") /\ store.kind = "memory" /\ UNCHANGED <<text, counts>>
  /\ IF store.memory[Ski(k)] # None
     THEN calls' = Ends(u, "error") /\ UNCHANGED store
     ELSE calls' = Ends(u, "ok") /\ store' = [store EXCEPT !.memory[Ski(k)] = k]
\* A file is replaced in two steps.
OpenFile(u) ==
  /\ At(u, "store") /\ store.kind = "file" /\ calls' = [calls EXCEPT ![u].at = "write"]
  /\ store' = [store EXCEPT !.files[Name(calls[u].key)] = Torn] /\ UNCHANGED <<text, counts>>
WriteFile(u) ==
  /\ At(u, "write") /\ calls' = Ends(u, "ok") /\ UNCHANGED <<text, counts>>
  /\ store' = [store EXCEPT !.files[Name(calls[u].key)] = calls[u].key]
\* No room, or the process ends
WriteFails(u) ==
  /\ At(u, "write") /\ counts.faults < MaxFaults
  /\ counts' = [counts EXCEPT !.faults = @ + 1]
  /\ calls' = Ends(u, "error") /\ UNCHANGED <<store, text>>

-----------------------------------------------------------------------------
(* GetKey                                                                  *)

\* The names of a directory are read in their order.
FirstSuffix(files, ski) ==
  LET there == {s \in Suffixes : files[<<ski, s>>] # None} IN
  IF "key" \in there THEN "key" ELSE IF "pk" \in there THEN "pk"
  ELSE IF "sk" \in there THEN "sk" ELSE None
Load(files, ski, suffix) ==
  IF files[<<ski, suffix>>] \in Keys THEN files[<<ski, suffix>>] ELSE None
\* searchKeystoreForSKI: the secret keys of all files.
\* slip: any of them
FindAny(s, ski) ==
  LET sks == s.others \cup {k \in Keys : k.is = "sk" /\ \E n \in Names : s.files[n] = k} IN
  IF sks = {} THEN None ELSE CHOOSE k \in sks : TRUE
Find(s, ski) ==
  LET sks == {k \in Keys : /\ k.is = "sk" /\ Ski(k) = ski
                           /\ k \in s.others \/ \E n \in Names : s.files[n] = k} IN
  IF sks = {} THEN None ELSE CHOOSE k \in sks : TRUE

Gets(u, k) ==
  calls' = [calls EXCEPT ![u] = [NoCall EXCEPT !.op = "get", !.ski = calls[u].ski, !.key = k,
                                               !.result = IF k = None THEN "error" ELSE "ok"]]
GetKey(u, ski) ==
  /\ At(u, "idle") /\ Call /\ UNCHANGED <<store, text>>
  /\ calls' = [calls EXCEPT ![u] =
       [NoCall EXCEPT !.op = "get", !.ski = ski, !.at = IF store.kind = "file" THEN "names"
                                                        ELSE "lookup"]]
Lookup(u) ==
  /\ At(u, "lookup") /\ Gets(u, store.memory[calls[u].ski]) /\ UNCHANGED <<store, text, counts>>
ReadNames(u) ==
  /\ At(u, "names") /\ UNCHANGED <<store, text, counts>>
  /\ calls' = [calls EXCEPT ![u].at = "load",
                            ![u].suffix = FirstSuffix(store.files, calls[u].ski)]
LoadKey(u) ==
  LET c == calls[u] IN
  /\ At(u, "load") /\ UNCHANGED <<store, text, counts>>
  /\ Gets(u, IF c.suffix = None THEN Find(store, c.ski) ELSE Load(store.files, c.ski, c.suffix))
\* Sign: there is a signer for secret keys only.
Sign(u) ==
  /\ At(u, "idle") /\ Result(u) = "ok" /\ calls[u].op # "sign" /\ UNCHANGED <<store, text, counts>>
  /\ calls' = [calls EXCEPT ![u].op = "sign",
                            ![u].result = IF calls[u].key.is = "sk" THEN "signed" ELSE "error"]

-----------------------------------------------------------------------------
(* Encrypt and Decrypt of a symmetric key                                  *)

\* slip: none, where the length is that of blocks already
PaddingIfNeeded(length) == (BlockSize - (length % BlockSize)) % BlockSize
Padding(length) == BlockSize - (length % BlockSize)
\* The last byte says how many there are to take off.
UnPadded(length, last) == IF last = 0 \/ last > BlockSize THEN None ELSE length - last

Encrypt(u, length) ==
  /\ text.at = "none" /\ At(u, "idle") /\ Result(u) = "ok" /\ calls[u].key.is = "key"
  /\ text' = [at |-> "cipher", length |-> length, last |-> Padding(length), result |-> None]
  /\ UNCHANGED <<calls, store, counts>>
\* The blocks are decrypted where they are: what was the ciphertext is the plaintext then,
\* and decrypted once more it is anything.
Decrypt ==
  /\ text.at # "none" /\ UNCHANGED <<calls, store, counts>>
  /\ LET whole == text.length + Padding(text.length) IN
     \/ /\ text.at = "cipher"
        /\ text' = [text EXCEPT !.at = "plain",
                                !.result = UnPadded(text.length + text.last, text.last)]
     \/ /\ text.at = "plain"
        /\ \E last \in 0 .. BlockSize + 1 :
             text' = [text EXCEPT !.at = "again", !.result = UnPadded(whole, last)]

Next ==
  \/ \E u \in Users, k \in Keys, ephemeral \in BOOLEAN :
       KeyGen(u, k, ephemeral) \/ KeyImport(u, k, ephemeral)
  \/ \E u \in Users : \/ StoreNowhere(u) \/ StoreInMemory(u) \/ OpenFile(u) \/ WriteFile(u)
                      \/ WriteFails(u) \/ Lookup(u) \/ ReadNames(u) \/ LoadKey(u) \/ Sign(u)
  \/ \E u \in Users, ski \in SKIs : GetKey(u, ski)
  \/ \E u \in Users, length \in 0 .. MaxLength : Encrypt(u, length)
  \/ Decrypt
Spec == Init /\ [][Next]_vars

-----------------------------------------------------------------------------
(* Properties                                                              *)

\* The shape of the state.
TypeOK ==
  /\ \A u \in Users : /\ calls[u].at \in {"idle", "store", "write", "lookup", "names", "load"}
                      /\ calls[u].key \in Keys \cup {None} /\ calls[u].ski \in SKIs \cup {None}
                      /\ calls[u].suffix \in Suffixes \cup {None}
  /\ store.files \in [Names -> Keys \cup {None, Torn}]
  /\ store.memory \in [SKIs -> Keys \cup {None}] /\ store.others \subseteq Keys
  /\ counts \in [calls : 0 .. MaxCalls, faults : 0 .. MaxFaults]

\* "GetKey returns a key object whose SKI is the one passed", whatever others store while
\* it reads.
FoundIsAsked ==
  \A u \in Users : calls[u].op = "get" /\ Result(u) = "ok" => Ski(calls[u].key) = calls[u].ski

\* What is stored stays: the file of a key is only ever replaced by that key, although a
\* secret key and its public key have one SKI.
Stays(n) == store.files[n] \in Keys =>
              \/ store'.files[n] = store.files[n]
              \/ \E u \in Users : calls'[u].at = "write" /\ calls'[u].key = store.files[n]
KeysStayStep ==
  /\ \A n \in Names : Stays(n)
  /\ \A s \in SKIs : store.memory[s] # None => store'.memory[s] = store.memory[s]
KeysStay == [][KeysStayStep]_vars

\* The plaintext comes back, of any length around that of the blocks.
PlaintextComesBack == text.at = "plain" => text.result = text.length

\* A secret key that is stored can be found, to sign with, whatever else is stored.
StoredCanSign ==
  \A k \in Keys : k.is = "sk" /\ store.files[Name(k)] = k =>
    LET suffix == FirstSuffix(store.files, Ski(k)) IN Load(store.files, Ski(k), suffix) = k

\* "Decrypt decrypts ciphertext using key k", and leaves it as it is.
DecryptsAgain == text.at = "again" => text.result = text.length

\* A key can be imported again, as it can be with files.
ImportsAgain ==
  \A u \in Users : calls[u].op = "import" /\ Result(u) = "error" /\ counts.faults = 0 =>
    store.kind = "dummy"
=============================================================================
