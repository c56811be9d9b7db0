------------------------------ MODULE Keystore ------------------------------
(***************************************************************************)
(* The identity of a device on its disk (storage.rs, keystore_v1.rs) and   *)
(* in memory (session_runtime.rs), with what the unlock screen and the     *)
(* settings do to it (host.rs, main.rs).                                   *)
(*                                                                         *)
(* A keystore is saved by writing a temporary file and renaming it.  The   *)
(* process may die, and the disk may refuse, between any two of these      *)
(* steps.  The interface runs one operation at a time.                     *)
(*                                                                         *)
(* Keys are symbolic: an identity is its algorithm and its secret, and a   *)
(* ciphertext opens with the password and the algorithm it was sealed with.*)
(***************************************************************************)
EXTENDS Naturals, FiniteSets

CONSTANTS
    Algorithm,    \* with "secp256k1", the one a keystore need not name
    Secret,
    ValidSecret,  \* the pairs of an algorithm and a secret it accepts
    Password,
    MaxMishaps,   \* bound of the crashes and refused writes
    NoFile, Torn, NoOne, Idle

ASSUME KeystoreAssumption ==
    /\ "secp256k1" \in Algorithm
    /\ ValidSecret \subseteq Algorithm \X Secret
    /\ \E s \in Secret : <<"secp256k1", s>> \in ValidSecret
    /\ MaxMishaps \in Nat

VARIABLES
    main,     \* keystore_v1.json
    tmp,      \* keystore_v1.json.tmp
    prefs,    \* preferences_v1.json is there
    unlocked,  \* the unlocked identity
    job,      \* the operation that is writing or removing files
    backups,  \* keystores the user has saved
    owner,    \* history: the identity set up on this device and not deleted
    known,    \* history: the passwords that may open it
    mishaps

keyVars == <<main, tmp, prefs, unlocked, job, backups, owner, known, mishaps>>

Identity == Algorithm \X Secret
Sealed == [algorithm : Algorithm, secret : Secret, password : Password]
Store == [algorithm : Algorithm, public : Identity, sealed : Sealed]
FileStep == {"open", "fill", "rename", "install", "remove", "cleanTmp", "cleanPrefs"}
FileJob == [kind : {"setup", "password", "delete"}, at : FileStep, store : Store, password : Password]

\* What is no keystore, no identity and no operation.
ASSUME KeystoreNulls ==
    /\ NoFile \notin Store /\ Torn \notin Store
    /\ NoOne \notin Identity /\ Idle \notin FileJob

KeyTypeOK ==
    /\ main \in Store \cup {NoFile} /\ tmp \in Store \cup {NoFile, Torn}
    /\ prefs \in BOOLEAN
    /\ unlocked \in Identity \cup {NoOne} /\ owner \in Identity \cup {NoOne}
    /\ job \in FileJob \cup {Idle}
    /\ backups \subseteq Store /\ known \subseteq Password
    /\ mishaps \in 0..MaxMishaps

KeyInit ==
    /\ main = NoFile /\ tmp = NoFile /\ prefs \in BOOLEAN
    /\ unlocked = NoOne /\ job = Idle /\ owner = NoOne /\ known = {}
    /\ \E id \in ValidSecret, p \in Password :
          backups = {[algorithm |-> id[1], public |-> id,
                      sealed |-> [algorithm |-> id[1], secret |-> id[2], password |-> p]]}
    /\ mishaps = 0

-----------------------------------------------------------------------------
(* Keystores.                                                              *)

\* derive_master_key, derive_aead_key: the key of the ciphertext is the password's.
MasterKey(p) == p

\* parse_secret_bytes_for_algorithm: what an algorithm accepts
ParseSecret(alg, s) == <<alg, s>> \in ValidSecret

\* public_key_from_secret
PublicKey(alg, s) == <<alg, s>>

\* encrypt_identity_secret
Encrypt(p, alg, s) == [algorithm |-> alg, secret |-> s, password |-> MasterKey(p)]

\* create_keystore_v1_from_secret_with_algorithm
CreateFromSecret(p, alg, s) ==
    [algorithm |-> alg, public |-> PublicKey(alg, s), sealed |-> Encrypt(p, alg, s)]

\* decrypted_from_secret
Decrypted(ks) == PublicKey(ks.algorithm, ks.sealed.secret)

\* unlock_keystore_v1: the additional data of the ciphertext is the algorithm
\* the file names, and the public key it names must be that of the secret.
Unlocks(p, ks) ==
    /\ ks.sealed.password = MasterKey(p)
    /\ ks.sealed.algorithm = ks.algorithm
    /\ ParseSecret(ks.algorithm, ks.sealed.secret)
    /\ Decrypted(ks) = ks.public

\* A file the user picks: a backup, or one in which another algorithm or
\* another public key has been written.
Edited(ks) == [algorithm : Algorithm, public : Identity, sealed : {ks.sealed}]

\* keystore_v1_file_exists
FileExists == main # NoFile

\* load_keystore_v1
Loaded(ks) == main = ks /\ ks # NoFile

\* install_session
Installed(id) == unlocked' = id

Starts(kind, at, ks, p) == job' = [kind |-> kind, at |-> at, store |-> ks, password |-> p]

-----------------------------------------------------------------------------
(* What the user starts.                                                   *)

\* unlock, create_or_unlock_identity_v1 with a file
UnlockIdentity(p) ==
    /\ job = Idle /\ unlocked = NoOne
    /\ \E ks \in Store : Loaded(ks) /\ Unlocks(p, ks) /\ Installed(Decrypted(ks))
    /\ UNCHANGED <<main, tmp, prefs, job, backups, owner, known, mishaps>>

\* lock_identity
LockIdentity ==
    /\ job = Idle /\ unlocked # NoOne /\ FileExists
    /\ unlocked' = NoOne
    /\ UNCHANGED <<main, tmp, prefs, job, backups, owner, known, mishaps>>

\* unlock_with_options without a file: generate_secret, or a secret the user
\* has typed
CreateIdentity(p, alg, s) ==
    /\ job = Idle /\ ~FileExists /\ ParseSecret(alg, s)
    /\ Starts("setup", "open", CreateFromSecret(p, alg, s), p)
    /\ UNCHANGED <<main, tmp, prefs, unlocked, backups, owner, known, mishaps>>

\* import_keystore_from_json_v1
ImportJson(p, ks) ==
    /\ job = Idle /\ ~FileExists /\ Unlocks(p, ks)
    /\ Starts("setup", "open", ks, p)
    /\ UNCHANGED <<main, tmp, prefs, unlocked, backups, owner, known, mishaps>>

\* change_password_v1
ChangePassword(old, new) ==
    /\ job = Idle /\ unlocked # NoOne /\ old # new
    /\ \E ks \in Store :
          /\ Loaded(ks) /\ Unlocks(old, ks)
          /\ Starts("password", "open", CreateFromSecret(new, ks.algorithm, ks.sealed.secret), new)
    /\ UNCHANGED <<main, tmp, prefs, unlocked, backups, owner, known, mishaps>>

\* save_backup, to a place the user picks
Saved(ks) == backups' = backups \cup {ks}

\* export_keystore_json_v1
Export ==
    /\ job = Idle /\ unlocked # NoOne
    /\ \E ks \in Store : Loaded(ks) /\ Saved(ks)
    /\ UNCHANGED <<main, tmp, prefs, unlocked, job, owner, known, mishaps>>

\* ui_locale_set, availability_status_set and others: save_preferences_v1
SavePreferences ==
    /\ job = Idle /\ unlocked # NoOne /\ ~prefs
    /\ prefs' = TRUE
    /\ UNCHANGED <<main, tmp, unlocked, job, backups, owner, known, mishaps>>

\* delete_identity: unlock, which also installs the session ...
StartDelete(p) ==
    /\ job = Idle /\ \E ks \in Store : /\ Loaded(ks) /\ Unlocks(p, ks)
                                       /\ Installed(Decrypted(ks))
                                       /\ Starts("delete", "remove", ks, p)
    /\ UNCHANGED <<main, tmp, prefs, backups, owner, known, mishaps>>

\* ... and which makes an identity when there is no file: the button stays
\* after a deletion that failed on the preferences.
StartDeleteAgain(p, s) ==
    /\ job = Idle /\ ~FileExists /\ unlocked # NoOne /\ ParseSecret("secp256k1", s)
    /\ Starts("delete", "open", CreateFromSecret(p, "secp256k1", s), p)
    /\ UNCHANGED <<main, tmp, prefs, unlocked, backups, owner, known, mishaps>>

-----------------------------------------------------------------------------
(* The steps of save_keystore_v1 and of delete_stored_identity_v1.         *)

\* Mutant of OpenTmp: the keystore is written in place.
OpenTmpInPlace ==
    /\ job # Idle /\ job.at = "open"
    /\ main' = Torn
    /\ job' = [job EXCEPT !.at = "fill"]
    /\ UNCHANGED <<tmp, prefs, unlocked, backups, owner, known, mishaps>>

\* fs::write creates or empties the temporary file ...
OpenTmp ==
    /\ job # Idle /\ job.at = "open"
    /\ tmp' = Torn
    /\ job' = [job EXCEPT !.at = "fill"]
    /\ UNCHANGED <<main, prefs, unlocked, backups, owner, known, mishaps>>

\* ... and fills it.
FillTmp ==
    /\ job # Idle /\ job.at = "fill"
    /\ tmp' = job.store
    /\ job' = [job EXCEPT !.at = "rename"]
    /\ UNCHANGED <<main, prefs, unlocked, backups, owner, known, mishaps>>

RenameTmp ==
    /\ job # Idle /\ job.at = "rename"
    /\ main' = tmp /\ tmp' = NoFile
    /\ job' = [job EXCEPT !.at = "install"]
    /\ IF job.kind = "delete" THEN UNCHANGED <<owner, known>>
       ELSE /\ owner' = IF owner = NoOne THEN Decrypted(job.store) ELSE owner
            /\ known' = {job.password}
    /\ UNCHANGED <<prefs, unlocked, backups, mishaps>>

\* install_session; a deletion goes on with the file it has made.
InstallUnlocked ==
    /\ job # Idle /\ job.at = "install"
    /\ Installed(Decrypted(job.store))
    /\ job' = IF job.kind = "delete" THEN [job EXCEPT !.at = "remove"] ELSE Idle
    /\ UNCHANGED <<main, tmp, prefs, backups, owner, known, mishaps>>

RemoveMain ==
    /\ job # Idle /\ job.at = "remove"
    /\ main' = NoFile
    /\ job' = [job EXCEPT !.at = "cleanTmp"]
    /\ owner' = NoOne /\ known' = {}
    /\ UNCHANGED <<tmp, prefs, unlocked, backups, mishaps>>

\* The temporary file may stay: its removal is tried and no error is reported.
CleanTmp ==
    /\ job # Idle /\ job.at = "cleanTmp"
    /\ tmp' \in {tmp, NoFile}
    /\ job' = [job EXCEPT !.at = "cleanPrefs"]
    /\ UNCHANGED <<main, prefs, unlocked, backups, owner, known, mishaps>>

\* delete_preferences_v1_file, then lock
CleanPreferences ==
    /\ job # Idle /\ job.at = "cleanPrefs"
    /\ prefs' = FALSE
    /\ unlocked' = NoOne /\ job' = Idle
    /\ UNCHANGED <<main, tmp, backups, owner, known, mishaps>>

\* The disk refuses: the operation ends where it is and the user is told.
Refused ==
    /\ job # Idle /\ job.at \notin {"install", "cleanTmp"} /\ mishaps < MaxMishaps
    /\ mishaps' = mishaps + 1
    /\ job' = Idle
    /\ UNCHANGED <<main, tmp, prefs, unlocked, backups, owner, known>>

Crash ==
    /\ mishaps < MaxMishaps
    /\ mishaps' = mishaps + 1
    /\ job' = Idle /\ unlocked' = NoOne
    /\ UNCHANGED <<main, tmp, prefs, backups, owner, known>>

KeyNext ==
    \/ \E p \in Password :
          \/ UnlockIdentity(p) \/ StartDelete(p)
          \/ \E alg \in Algorithm, s \in Secret : CreateIdentity(p, alg, s)
          \/ \E s \in Secret : StartDeleteAgain(p, s)
          \/ \E b \in backups : \E ks \in Edited(b) : ImportJson(p, ks)
          \/ \E new \in Password : ChangePassword(p, new)
    \/ LockIdentity \/ Export \/ SavePreferences
    \/ OpenTmp \/ FillTmp \/ RenameTmp \/ InstallUnlocked
    \/ RemoveMain \/ CleanTmp \/ CleanPreferences
    \/ Refused \/ Crash

KeySpec == KeyInit /\ [][KeyNext]_keyVars

-----------------------------------------------------------------------------
(* Properties.                                                             *)

\* The identity that was set up on the device stays on its disk until its
\* deletion, under a password the user has chosen for it: whatever step of a
\* save a crash or a full disk cuts off, and whatever file was imported
\* (save_keystore_v1, delete_stored_identity_v1).
KeyIsKept ==
    owner # NoOne =>
        /\ main \notin {NoFile, Torn}
        /\ \E p \in known : Unlocks(p, main) /\ Decrypted(main) = owner
=============================================================================
