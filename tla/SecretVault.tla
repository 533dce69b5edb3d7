----------------------------- MODULE SecretVault -----------------------------
(***************************************************************************)
(* The values IceBox keeps (icebox/services/flask-backend): secrets with   *)
(* their numbered versions, one-time secrets, and the master keys (MEK)    *)
(* that wrap the key (DEK) each value is encrypted with.                   *)
(*                                                                         *)
(* Several processes share the database.  After its body has arrived a     *)
(* handler awaits nothing, so what interleaves are the statements of       *)
(* different processes.  PostgreSQL (external) runs them at READ           *)
(* COMMITTED: a statement sees what is committed when it starts, an UPDATE *)
(* waits for a row another transaction has updated and then looks at the   *)
(* row again, and a failed statement dooms its connection (see JitAccess). *)
(***************************************************************************)
EXTENDS Naturals

CONSTANTS
  Secret,      (* ids of secrets that may be allocated                     *)
  Token,       (* one-time secrets that may be made                        *)
  Process,     (* processes of the service                                 *)
  None,        (* no secret and no token                                   *)
  MaxNumber,   (* bound on version numbers                                 *)
  MaxMek       (* bound on master key versions                             *)

ASSUME SecretVaultAssumption ==
  /\ None \notin Secret \cup Token
  /\ MaxNumber \in Nat \ {0}
  /\ MaxMek \in Nat \ {0}

VARIABLES
  row,        (* whether each secret has a row                             *)
  current,    (* value, DEK and MEK version in each row of icebox_secrets  *)
  wrap,       (* DEK and MEK version in each row of icebox_secret_versions *)
  deprecated, (* versions of each secret that have a deprecated_at         *)
  seal,       (* whether a one-time secret is made and viewed              *)
  sealMek,    (* the MEK version its DEK is wrapped with                   *)
  expired,    (* one-time secrets whose expires_at is past                 *)
  shown,      (* how often the value of one was sent                       *)
  env,        (* the MEK version a process that starts now is told         *)
  loaded,     (* each process has the MEKs 1 to this                       *)
  mekNow,     (* and wraps with this one                                   *)
  conn,       (* the connection of each process                            *)
  doing,      (* what each process is in the middle of                     *)
  seen        (* the rows a MEK rotation has read                          *)

vaultVars == <<row, current, wrap, deprecated>>
onceVars  == <<seal, sealMek, expired, shown>>
keyVars   == <<env, loaded, mekNow>>
vars      == <<vaultVars, onceVars, keyVars, conn, doing, seen>>

Number == 1..MaxNumber
Mek    == 1..MaxMek

(* Each rotation makes a value and a DEK of its own: both are named by the *)
(* number of the version they were made for.                               *)
Wrap    == [dek : Number \cup {0}, mek : Mek \cup {0}]
NoWrap  == [dek |-> 0, mek |-> 0]
Content == [value : Number \cup {0}, dek : Number \cup {0}, mek : Mek \cup {0}]
NoContent == [value |-> 0, dek |-> 0, mek |-> 0]

Rotating == {"match", "locked", "numbered"}
Job    == [op : {"idle", "collect", "rewrap", "view", "claimed"} \cup Rotating,
           on : Secret \cup Token \cup {None},
           batch : SUBSET Number, number : Number \cup {0}, mek : Mek \cup {0}]
Idle   == [op |-> "idle", on |-> None, batch |-> {}, number |-> 0, mek |-> 0]
Copies == [current : [Secret -> Wrap], wrap : [Secret -> [Number -> Wrap]],
           once : SUBSET Token, mek : [Token -> Mek \cup {0}]]

NoVersions == [n \in Number |-> NoWrap]
NoCopies   == [current |-> [s \in Secret |-> NoWrap],
               wrap |-> [s \in Secret |-> NoVersions],
               once |-> {}, mek |-> [t \in Token |-> 0]]

Numbers(s) == {n \in Number : wrap[s][n] # NoWrap}
Undeprecated(s) == Numbers(s) \ deprecated[s]

VaultOK ==
  /\ row \in [Secret -> {"none", "stored", "deleted"}]
  /\ current \in [Secret -> Content]
  /\ wrap \in [Secret -> [Number -> Wrap]]
  /\ deprecated \in [Secret -> SUBSET Number]

OnceOK ==
  /\ seal \in [Token -> {"none", "sealed", "opened"}]
  /\ sealMek \in [Token -> Mek \cup {0}]
  /\ expired \subseteq Token
  /\ shown \in [Token -> Nat]
  /\ \A t \in Token : seal[t] # "none" => sealMek[t] \in Mek

KeyOK ==
  /\ env \in Mek
  /\ loaded \in [Process -> Mek]
  /\ mekNow \in [Process -> Mek]

JobOK(p) ==
  /\ doing[p].op \in Rotating => doing[p].on \in Secret
  /\ doing[p].op = "numbered" => doing[p].number \in Number
  /\ doing[p].op \in {"view", "claimed"} => doing[p].on \in Token
  /\ doing[p].op \in {"collect", "rewrap"} => doing[p].mek \in Mek

LocalOK ==
  /\ conn \in [Process -> {"ok", "aborted"}]
  /\ doing \in [Process -> Job]
  /\ seen \in [Process -> Copies]
  /\ \A p \in Process : JobOK(p)

TypeOK == VaultOK /\ OnceOK /\ KeyOK /\ LocalOK

Init ==
  /\ row = [s \in Secret |-> "none"]
  /\ current = [s \in Secret |-> NoContent]
  /\ wrap = [s \in Secret |-> NoVersions]
  /\ deprecated = [s \in Secret |-> {}]
  /\ seal = [t \in Token |-> "none"]
  /\ sealMek = [t \in Token |-> 0]
  /\ expired = {}
  /\ shown = [t \in Token |-> 0]
  /\ env = 1
  /\ loaded = [p \in Process |-> 1]
  /\ mekNow = [p \in Process |-> 1]
  /\ conn = [p \in Process |-> "ok"]
  /\ doing = [p \in Process |-> Idle]
  /\ seen = [p \in Process |-> NoCopies]

-----------------------------------------------------------------------------
Free(p) == doing[p] = Idle /\ conn[p] = "ok"

Leave(p) ==
  /\ doing' = [doing EXCEPT ![p] = Idle]
  /\ seen' = [seen EXCEPT ![p] = NoCopies]

(* The version rows a process has updated and not committed. *)
Locked(p, s) == IF doing[p].op \in {"locked", "numbered"} /\ doing[p].on = s
                THEN doing[p].batch ELSE {}

LockedByOther(p, s) == UNION {Locked(q, s) : q \in Process \ {p}}

-----------------------------------------------------------------------------
(* Secrets *)

(* create_secret: the secret and its first version, in one transaction.    *)
CreateSecret(p, s) ==
  /\ Free(p)
  /\ row[s] = "none"
  /\ row' = [row EXCEPT ![s] = "stored"]
  /\ current' = [current EXCEPT ![s] = [value |-> 1, dek |-> 1, mek |-> mekNow[p]]]
  /\ wrap' = [wrap EXCEPT ![s][1] = [dek |-> 1, mek |-> mekNow[p]]]
  /\ UNCHANGED <<deprecated, onceVars, keyVars, conn, doing, seen>>

(* delete_secret; the foreign keys delete the versions.                    *)
DeleteSecret(p, s) ==
  /\ Free(p)
  /\ row[s] = "stored"
  /\ LockedByOther(p, s) = {}
  /\ row' = [row EXCEPT ![s] = "deleted"]
  /\ current' = [current EXCEPT ![s] = NoContent]
  /\ wrap' = [wrap EXCEPT ![s] = NoVersions]
  /\ deprecated' = [deprecated EXCEPT ![s] = {}]
  /\ UNCHANGED <<onceVars, keyVars, conn, doing, seen>>

(* rotate_secret: the secret was there before the body was awaited.  The   *)
(* UPDATE of deprecated_at finds the versions that match when it starts;   *)
BeginRotate(p, s) ==
  /\ Free(p)
  /\ row[s] # "none"
  /\ doing' = [doing EXCEPT ![p] =
       [Idle EXCEPT !.op = "match", !.on = s, !.batch = Undeprecated(s)]]
  /\ UNCHANGED <<vaultVars, onceVars, keyVars, conn, seen>>

(* waits for those that another rotation has locked, and leaves those that *)
(* no longer match alone.                                                  *)
Deprecate(p) ==
  LET s == doing[p].on IN
  /\ doing[p].op = "match"
  /\ doing[p].batch \cap LockedByOther(p, s) = {}
  /\ doing' = [doing EXCEPT ![p].op = "locked",
                            ![p].batch = doing[p].batch \cap Undeprecated(s)]
  /\ UNCHANGED <<vaultVars, onceVars, keyVars, conn, seen>>

(* The latest version number is read, and one is added. *)
PickNumber(p) ==
  /\ doing[p].op = "locked"
  /\ \E n \in Number :
       /\ \A m \in Numbers(doing[p].on) : m < n
       /\ n = 1 \/ n - 1 \in Numbers(doing[p].on)
       /\ doing' = [doing EXCEPT ![p].op = "numbered", ![p].number = n]
  /\ UNCHANGED <<vaultVars, onceVars, keyVars, conn, seen>>

(* The new version breaks a constraint. *)
Refused(p) == \/ row[doing[p].on] # "stored"
              \/ doing[p].number \in Numbers(doing[p].on)

(* Variant: the old versions are deprecated after the new one is inserted. *)
DeprecatedLast(p) == deprecated[doing[p].on] \cup Undeprecated(doing[p].on)
                       \cup {doing[p].number}

DeprecatedBy(p) == deprecated[doing[p].on] \cup doing[p].batch

(* Variant: the row of the secret is not updated. *)
ContentKept(p) == current[doing[p].on]

ContentOf(p) ==
  [value |-> doing[p].number, dek |-> doing[p].number, mek |-> mekNow[p]]

(* The version is inserted, the secret updated, and all of it committed.   *)
FinishRotate(p) ==
  LET s == doing[p].on
      n == doing[p].number IN
  /\ doing[p].op = "numbered"
  /\ IF Refused(p)
     THEN /\ conn' = [conn EXCEPT ![p] = "aborted"]
          /\ UNCHANGED vaultVars
     ELSE /\ wrap' = [wrap EXCEPT ![s][n] = [dek |-> n, mek |-> mekNow[p]]]
          /\ deprecated' = [deprecated EXCEPT ![s] = DeprecatedBy(p)]
          /\ current' = [current EXCEPT ![s] = ContentOf(p)]
          /\ UNCHANGED <<row, conn>>
  /\ Leave(p)
  /\ UNCHANGED <<onceVars, keyVars>>

-----------------------------------------------------------------------------
(* rotate_mek *)

(* The rows of icebox_secrets are read, ...                                *)
BeginRewrap(p, k) ==
  /\ Free(p)
  /\ k <= loaded[p]
  /\ doing' = [doing EXCEPT ![p] = [Idle EXCEPT !.op = "collect", !.mek = k]]
  /\ seen' = [seen EXCEPT ![p].current = [s \in Secret |->
       IF row[s] = "stored" /\ current[s].mek # k
       THEN [dek |-> current[s].dek, mek |-> current[s].mek] ELSE NoWrap]]
  /\ UNCHANGED <<vaultVars, onceVars, keyVars, conn>>

(* ... then the versions and the one-time secrets (which no transaction    *)
(* writes together, so that one step reads both).                          *)
Collect(p) ==
  LET k == doing[p].mek IN
  /\ doing[p].op = "collect"
  /\ doing' = [doing EXCEPT ![p].op = "rewrap"]
  /\ seen' = [seen EXCEPT
       ![p].wrap = [s \in Secret |-> [n \in Number |->
          IF wrap[s][n].mek # k THEN wrap[s][n] ELSE NoWrap]],
       ![p].once = {t \in Token : seal[t] # "none" /\ sealMek[t] # k},
       ![p].mek = sealMek]
  /\ UNCHANGED <<vaultVars, onceVars, keyVars, conn>>

(* p has the keys that the rows it has read are wrapped with. *)
Unwraps(p) ==
  /\ \A s \in Secret : seen[p].current[s].mek <= loaded[p]
  /\ \A s \in Secret, n \in Number : seen[p].wrap[s][n].mek <= loaded[p]
  /\ \A t \in seen[p].once : seen[p].mek[t] <= loaded[p]

RewrapRaises(p) ==
  /\ doing[p].op = "rewrap"
  /\ ~Unwraps(p)
  /\ Leave(p)
  /\ UNCHANGED <<vaultVars, onceVars, keyVars, conn>>

(* Variant: a version gets the DEK read for its secret. *)
RewrapOfSecret(p, s, n) == seen[p].current[s]

(* The DEK read for a version. *)
RewrapOfRow(p, s, n) == seen[p].wrap[s][n]

(* Every row that was read is written back, by id, with the DEK it had     *)
(* then; those that are gone are passed over.                              *)
FinishRewrap(p) ==
  LET k == doing[p].mek IN
  /\ doing[p].op = "rewrap"
  /\ Unwraps(p)
  /\ \A s \in Secret : \A n \in LockedByOther(p, s) : seen[p].wrap[s][n] = NoWrap
  /\ current' = [s \in Secret |->
       IF row[s] = "stored" /\ seen[p].current[s] # NoWrap
       THEN [current[s] EXCEPT !.dek = seen[p].current[s].dek, !.mek = k]
       ELSE current[s]]
  /\ wrap' = [s \in Secret |-> [n \in Number |->
       IF n \in Numbers(s) /\ seen[p].wrap[s][n] # NoWrap
       THEN [dek |-> RewrapOfRow(p, s, n).dek, mek |-> k] ELSE wrap[s][n]]]
  /\ sealMek' = [t \in Token |-> IF t \in seen[p].once THEN k ELSE sealMek[t]]
  /\ mekNow' = [mekNow EXCEPT ![p] = k]
  /\ Leave(p)
  /\ UNCHANGED <<row, deprecated, seal, expired, shown, env, loaded, conn>>

(* One of the UPDATEs fails: nothing is written, but the process already   *)
(* wraps with the new key.                                                 *)
PersistFails(p) ==
  /\ doing[p].op = "rewrap"
  /\ Unwraps(p)
  /\ mekNow' = [mekNow EXCEPT ![p] = doing[p].mek]
  /\ conn' = [conn EXCEPT ![p] = "aborted"]
  /\ Leave(p)
  /\ UNCHANGED <<vaultVars, onceVars, env, loaded>>

-----------------------------------------------------------------------------
(* One-time secrets *)

(* Variant: the MEK version is not stored. *)
CreateUnversioned(p, t) ==
  /\ Free(p)
  /\ seal[t] = "none"
  /\ seal' = [seal EXCEPT ![t] = "sealed"]
  /\ UNCHANGED <<vaultVars, sealMek, expired, shown, keyVars, conn, doing, seen>>

(* create_one_time_secret *)
CreateToken(p, t) ==
  /\ Free(p)
  /\ seal[t] = "none"
  /\ seal' = [seal EXCEPT ![t] = "sealed"]
  /\ sealMek' = [sealMek EXCEPT ![t] = mekNow[p]]
  /\ UNCHANGED <<vaultVars, expired, shown, keyVars, conn, doing, seen>>

Expire(t) ==
  /\ seal[t] # "none"
  /\ expired' = expired \cup {t}
  /\ UNCHANGED <<vaultVars, seal, sealMek, shown, keyVars, conn, doing, seen>>

(* retrieve_one_time_secret reads the row and looks at expires_at and      *)
(* viewed_at ...                                                           *)
BeginView(p, t) ==
  /\ Free(p)
  /\ seal[t] = "sealed"
  /\ t \notin expired
  /\ doing' = [doing EXCEPT ![p] =
       [Idle EXCEPT !.op = "view", !.on = t, !.mek = sealMek[t]]]
  /\ UNCHANGED <<vaultVars, onceVars, keyVars, conn, seen>>

(* Variant: the UPDATE does not ask for viewed_at to be NULL. *)
Unchecked(t) == seal[t] # "none"

Unviewed(t) == seal[t] = "sealed"

(* ... marks it viewed, unless it is by now ...                            *)
ClaimView(p) ==
  LET t == doing[p].on IN
  /\ doing[p].op = "view"
  /\ IF Unviewed(t)
     THEN /\ seal' = [seal EXCEPT ![t] = "opened"]
          /\ doing' = [doing EXCEPT ![p].op = "claimed"]
          /\ UNCHANGED seen
     ELSE /\ Leave(p)
          /\ UNCHANGED seal
  /\ UNCHANGED <<vaultVars, sealMek, expired, shown, keyVars, conn>>

(* ... and decrypts what it has read: without the key the secret is lost.  *)
AnswerView(p) ==
  LET t == doing[p].on IN
  /\ doing[p].op = "claimed"
  /\ shown' = IF doing[p].mek <= loaded[p]
              THEN [shown EXCEPT ![t] = @ + 1] ELSE shown
  /\ Leave(p)
  /\ UNCHANGED <<vaultVars, seal, sealMek, expired, keyVars, conn>>

-----------------------------------------------------------------------------
(* The environment *)

(* A new master key is configured; processes that start from now on get it *)
(* beside the old ones (EnvelopeEncryption.from_env).                      *)
ConfigureMek ==
  /\ env < MaxMek
  /\ env' = env + 1
  /\ UNCHANGED <<vaultVars, onceVars, loaded, mekNow, conn, doing, seen>>

Restart(p) ==
  /\ loaded' = [loaded EXCEPT ![p] = env]
  /\ mekNow' = [mekNow EXCEPT ![p] = env]
  /\ conn' = [conn EXCEPT ![p] = "ok"]
  /\ Leave(p)
  /\ UNCHANGED <<vaultVars, onceVars, env>>

(* Any other statement of p fails, as of two transactions that deadlock:   *)
(* what it has not committed is undone and the connection is of no more use.*)
StatementFails(p) ==
  /\ conn[p] = "ok"
  /\ doing[p].op # "rewrap"
  /\ conn' = [conn EXCEPT ![p] = "aborted"]
  /\ Leave(p)
  /\ UNCHANGED <<vaultVars, onceVars, keyVars>>

-----------------------------------------------------------------------------
Keep(p) ==
  \/ \E s \in Secret : CreateSecret(p, s) \/ DeleteSecret(p, s) \/ BeginRotate(p, s)
  \/ Deprecate(p) \/ PickNumber(p) \/ FinishRotate(p)

Rewrap(p) ==
  \/ \E k \in Mek : BeginRewrap(p, k)
  \/ Collect(p) \/ RewrapRaises(p) \/ FinishRewrap(p) \/ PersistFails(p)

View(p) ==
  \/ \E t \in Token : CreateToken(p, t) \/ BeginView(p, t)
  \/ ClaimView(p) \/ AnswerView(p)

Next ==
  \/ ConfigureMek
  \/ \E t \in Token : Expire(t)
  \/ \E p \in Process :
       Keep(p) \/ Rewrap(p) \/ View(p) \/ Restart(p) \/ StatementFails(p)

Spec == Init /\ [][Next]_vars

-----------------------------------------------------------------------------
(* Properties *)

(* The value of a secret is the one of its latest version, whatever        *)
(* rotations (rotate_secret) of it overlap.                                *)
CurrentIsLatest ==
  \A s \in Secret : row[s] = "stored" =>
    /\ current[s].value \in Numbers(s)
    /\ \A n \in Numbers(s) : n <= current[s].value

(* The latest version is never marked deprecated: overlapping rotations    *)
(* may leave an older one unmarked, not mark the one in use.               *)
LatestIsInUse ==
  \A s \in Secret : row[s] = "stored" => current[s].value \notin deprecated[s]

(* The history of a secret stays readable: whatever MEK rotations          *)
(* (rotate_mek) overlap with each other and with rotations of the secret,  *)
(* a version keeps its own DEK, wrapped with a key that a process started  *)
(* with the newest configuration has.                                      *)
HistoryIsReadable ==
  \A s \in Secret : \A n \in Numbers(s) :
    wrap[s][n].dek = n /\ wrap[s][n].mek \in 1..env

(* retrieve_one_time_secret, by any number of processes at once, shows a   *)
(* one-time secret at most once, and only after marking it viewed.         *)
Once == INSTANCE ShownOnce WITH Token <- Token, seal <- seal, shown <- shown

OnceSpec == Once!Spec

-----------------------------------------------------------------------------
(* What the code's documentation says, and what it does not do *)

(* docs/icebox/OVERVIEW.md: "All secrets keep their DEK, but EDEK is       *)
(* re-wrapped with new MEK version."  A MEK rotation writes back the DEK   *)
(* of the value that was there when it read the row.                       *)
SecretKeepsItsDek ==
  \A s \in Secret : row[s] = "stored" => current[s].dek = current[s].value
=============================================================================
