---------------------------- MODULE PackageFormat ----------------------------
(***************************************************************************)
(* The .nyp archive (nyarix-package): building and signing it (archive.rs, *)
(* signing.rs), what a reader makes of it (archive.rs, manifest.rs,        *)
(* lib.rs), and the trust its signature earns (trust.rs).                  *)
(*                                                                         *)
(* tar and zstd keep the entries in the order they were added, under paths *)
(* tar has put in order: an archive is the sequence of its entries, and a  *)
(* path may occur more than once.  Ed25519 is ideal: a signature names its *)
(* key and what it covers, and only Sign makes one.                        *)
(***************************************************************************)
EXTENDS Integers, Sequences, FiniteSets

CONSTANTS
    Members,    \* paths of ordinary members besides manifest.toml
    Spellings,  \* other ways to write a path: with "./" before it, say
    TarPath(_), \* the path a spelling has once it has been through tar
    Place(_, _), \* sort_unstable: Place(slots, x) is slot x's place among those of its path
    Blobs,      \* what such a member may contain
    Names,      \* names a manifest may carry; "" stands for one that is not valid
    Keys,       \* signing keys
    Levels,     \* trust levels a store may register
    MaxEntries, \* bound: entries of an archive
    MaxFaults   \* bound: members changed or lost on the way

TrustLevel == {"System", "Official", "Community", "Unknown", "Local", "Experimental"}

ManifestPath == "manifest.toml"
SignaturePath == "signatures/ed25519.sig"
PublicKeyPath == "signatures/ed25519.pub"
SignatureMembers == {SignaturePath, PublicKeyPath}
Proper == Members \cup {ManifestPath} \cup SignatureMembers

(* All that does not start with "signatures/".                              *)
Covered == Members \cup {ManifestPath} \cup Spellings

ASSUME FormatAssumption ==
    /\ MaxEntries \in Nat /\ MaxFaults \in Nat
    /\ Members \cap (SignatureMembers \cup {ManifestPath}) = {} /\ Spellings \cap Proper = {}
    /\ \A p \in Spellings : TarPath(p) \in Proper
    /\ \A p \in Proper : TarPath(p) = p
    /\ Levels \subseteq TrustLevel \ {"Unknown"}

(* What sort_unstable_by_key goes by: the paths, and where they stand.  It   *)
(* leaves two of one path in an order of its own, the same one every time.  *)
ASSUME SortAssumption ==
    \A slots \in SUBSET [pos : 1 .. MaxEntries, path : Covered] :
        \A x, y \in slots :
            /\ Place(slots, x) \in 1 .. Cardinality({z \in slots : z.path = x.path})
            /\ x.path = y.path /\ Place(slots, x) = Place(slots, y) => x = y

VARIABLES
    entries,    \* PackageBuilder::entries, then what the archive holds
    built,      \* build has written the entries out
    faults,     \* members changed or lost since
    store,      \* TrustStore::known_keys: the level of a key, "none" if not known
    signings,   \* observer: every Sign, with its key and the entries it signed
    fresh       \* observer: the entries were signed once, and last

vars == <<entries, built, faults, store, signings, fresh>>

Blob(b) == [kind |-> "blob", value |-> b]
Manifest(n) == [kind |-> "manifest", name |-> n]
PublicKey(k) == [kind |-> "key", key |-> k]
Signature(k, over) == [kind |-> "sig", key |-> k, over |-> over]
Malformed == [kind |-> "malformed"]

-----------------------------------------------------------------------------
(* Reading an archive.                                                      *)

Has(es, path) == \E i \in 1 .. Len(es) : es[i].path = path

(* read_entry, and find in signature_status: the first entry at a path.     *)
ReadEntry(es, path) ==
    es[CHOOSE i \in 1 .. Len(es) :
           /\ es[i].path = path
           /\ \A j \in 1 .. Len(es) : es[j].path = path => i <= j].content

(* open goes through all entries and keeps the last manifest it meets.      *)
ManifestOf(es) ==
    es[CHOOSE i \in 1 .. Len(es) :
           /\ es[i].path = ManifestPath
           /\ \A j \in 1 .. Len(es) : es[j].path = ManifestPath => j <= i].content

ValidateLayout(es) == Has(es, ManifestPath)

(* from_toml parses, then validates.                                        *)
FromToml(content) == content.name # ""

Opens(es) == ValidateLayout(es) /\ FromToml(ManifestOf(es))

(* The paths signable_bytes keeps, each with its position among them.       *)
CoveredAt(es) == {i \in 1 .. Len(es) : es[i].path \in Covered}
Slot(es, i) == [pos |-> Cardinality({j \in 1 .. i : es[j].path \in Covered}), path |-> es[i].path]
Slots(es) == {Slot(es, i) : i \in CoveredAt(es)}

Item(es, i) == [path |-> es[i].path, place |-> Place(Slots(es), Slot(es, i)),
                content |-> es[i].content]

(* mutant: signable_bytes leaves the manifest out                           *)
SignableMembers(es) == {Item(es, i) : i \in {j \in CoveredAt(es) : es[j].path # ManifestPath}}

(* signable_bytes: all but signatures/, sorted by path.  The bytes tell what *)
(* is at each path, and in which place the sort put it among its like.      *)
Signable(es) == {Item(es, i) : i \in CoveredAt(es)}

Verify(es, sig, key) == sig.key = key /\ sig.over = Signable(es)

(* signature_status: malformed bytes are Invalid, as is a wrong signature.  *)
SignatureStatus(es) ==
    IF ~Has(es, SignaturePath) \/ ~Has(es, PublicKeyPath) THEN "Unsigned"
    ELSE LET sig == ReadEntry(es, SignaturePath)
             pub == ReadEntry(es, PublicKeyPath)
         IN  IF sig.kind = "sig" /\ pub.kind = "key" /\ Verify(es, sig, pub.key)
             THEN "Verified" ELSE "Invalid"

RequireValidSignature(es) == SignatureStatus(es) = "Verified"

LevelFor(key) == IF store[key] = "none" THEN "Unknown" ELSE store[key]

(* mutant: the key last added is looked up, not the one that verified       *)
ClassifyLast(es) ==
    IF ~RequireValidSignature(es) THEN "Unknown"
    ELSE LevelFor(es[CHOOSE i \in 1 .. Len(es) :
                         /\ es[i].path = PublicKeyPath /\ es[i].content.kind = "key"
                         /\ \A j \in 1 .. Len(es) : es[j].path = PublicKeyPath
                                                   /\ es[j].content.kind = "key" => j <= i].content.key)

(* classify: the level of the bundled key, once the signature verifies.     *)
Classify(es) ==
    IF ~RequireValidSignature(es) THEN "Unknown"
    ELSE LevelFor(ReadEntry(es, PublicKeyPath).key)

-----------------------------------------------------------------------------
(* Building one.                                                            *)

Entry(p, c) == [path |-> p, content |-> c]

(* What a caller may add at each path; real signatures come from Sign only. *)
Contents(p) ==
    CASE TarPath(p) = ManifestPath  -> {Manifest(n) : n \in Names}
      [] TarPath(p) = SignaturePath -> {Malformed}
      [] TarPath(p) = PublicKeyPath -> {PublicKey(k) : k \in Keys} \cup {Malformed}
      [] OTHER                      -> {Blob(b) : b \in Blobs}

Init == /\ entries = <<>> /\ built = FALSE /\ faults = 0
        /\ store = [k \in Keys |-> "none"]
        /\ signings = {}
        /\ fresh = FALSE

AddFile(p, c) ==
    /\ ~built /\ Len(entries) < MaxEntries
    /\ entries' = Append(entries, Entry(p, c))
    /\ fresh' = FALSE
    /\ UNCHANGED <<built, faults, store, signings>>

(* sign: two more members, for the entries there are so far.                *)
Sign(k) ==
    /\ ~built /\ Len(entries) + 2 <= MaxEntries
    /\ entries' = entries \o <<Entry(SignaturePath, Signature(k, Signable(entries))),
                               Entry(PublicKeyPath, PublicKey(k))>>
    /\ signings' = signings \cup {[key |-> k, members |-> entries]}
    /\ fresh' = ~\E i \in 1 .. Len(entries) : entries[i].path \in SignatureMembers
    /\ UNCHANGED <<built, faults, store>>

(* build: tar keeps contents and their order, and drops the "." and the     *)
(* empty parts of a path: what was signed under one spelling is read under  *)
(* another.                                                                 *)
Build ==
    /\ ~built /\ built' = TRUE
    /\ entries' = [i \in 1 .. Len(entries) |-> Entry(TarPath(entries[i].path), entries[i].content)]
    /\ fresh' = (fresh /\ entries' = entries)
    /\ UNCHANGED <<faults, store, signings>>

(* The bytes of a member change on the way, or the member is lost.          *)
Corrupt(i, c) ==
    /\ built /\ faults < MaxFaults
    /\ entries[i].content # c
    /\ entries' = [entries EXCEPT ![i].content = c]
    /\ faults' = faults + 1 /\ fresh' = FALSE
    /\ UNCHANGED <<built, store, signings>>

Lose(i) ==
    /\ built /\ faults < MaxFaults
    /\ entries' = SubSeq(entries, 1, i - 1) \o SubSeq(entries, i + 1, Len(entries))
    /\ faults' = faults + 1 /\ fresh' = FALSE
    /\ UNCHANGED <<built, store, signings>>

NoneTwice(es) == \A i, j \in 1 .. Len(es) : es[i].path = es[j].path => i = j

(* The archive is packed again, and two neighbours trade places.  If it has  *)
(* each path once it is, for its signature, the same archive.               *)
Swap(i) ==
    /\ built /\ faults < MaxFaults
    /\ entries' = [entries EXCEPT ![i] = entries[i + 1], ![i + 1] = entries[i]]
    /\ faults' = faults + 1 /\ fresh' = (fresh /\ NoneTwice(entries))
    /\ UNCHANGED <<built, store, signings>>

(* TrustStore::trust, whatever the level.                                   *)
Trust(k, l) ==
    /\ store' = [store EXCEPT ![k] = l]
    /\ UNCHANGED <<entries, built, faults, signings, fresh>>

Paths == Proper \cup Spellings
Next == \/ \E p \in Paths : \E c \in Contents(p) : AddFile(p, c)
        \/ \E k \in Keys : Sign(k)
        \/ Build
        \/ \E i \in 1 .. Len(entries) :
              Lose(i) \/ \E c \in Contents(entries[i].path) : Corrupt(i, c)
        \/ \E i \in 1 .. Len(entries) - 1 : Swap(i)
        \/ \E k \in Keys, l \in Levels : Trust(k, l)

Spec == Init /\ [][Next]_vars

-----------------------------------------------------------------------------
KnownKeys == [Keys -> Levels \cup {"none"}]
Status == {"Unsigned", "Verified", "Invalid"}

(* Types: of a builder, an archive, what its reader reports and the store.  *)
TypeOK ==
    /\ \A i \in 1 .. Len(entries) : entries[i].path \in IF built THEN Proper ELSE Paths
    /\ Len(entries) <= MaxEntries
    /\ built \in BOOLEAN /\ faults \in 0 .. MaxFaults /\ (faults > 0 => built)
    /\ SignatureStatus(entries) \in Status
    /\ store \in KnownKeys
    /\ fresh \in BOOLEAN

(* A level other than Unknown means that the holder of a key registered at   *)
(* that level signed the very bytes the archive has to show now, however it  *)
(* was re-signed, extended, rearranged, corrupted or cut since.             *)
TrustIsEarned ==
    Classify(entries) # "Unknown" =>
        \E s \in signings : /\ store[s.key] = Classify(entries)
                            /\ Signable(s.members) = Signable(entries)

(* A package signed once, after everything was added, verifies when it is    *)
(* read, as long as its paths were spelled as tar gives them back; and still *)
(* does when it is rearranged, if no path occurs twice in it.               *)
SignedLastVerifies == fresh => SignatureStatus(entries) = "Verified"

OneManifest(es) ==
    \A i, j \in 1 .. Len(es) : es[i].path = ManifestPath /\ es[j].path = ManifestPath => i = j

OpensAs(es, fs) ==
    /\ Opens(es) <=> Opens(fs)
    /\ Opens(es) => ManifestOf(es) = ManifestOf(fs)

(* A package that verifies was signed, and opens to the manifest it had      *)
(* then: whatever was added, lost, changed or rearranged since.  With        *)
(* several manifests that is so only while its paths stand as they stood,   *)
(* for open takes the last of them, and the order the sort leaves them in   *)
(* says nothing of which one that is.                                       *)
OpensAsSigned ==
    SignatureStatus(entries) = "Verified" =>
        \E s \in signings :
            /\ Signable(s.members) = Signable(entries)
            /\ OneManifest(s.members) \/ Slots(s.members) = Slots(entries)
               => OpensAs(entries, s.members)

(* A signature covers what a reader uses.                                    *)
SignatureCovers == SignedLastVerifies /\ OpensAsSigned
=============================================================================
