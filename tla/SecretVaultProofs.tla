-------------------------- MODULE SecretVaultProofs --------------------------
(* Theorems about SecretVault for any number of secrets, one-time secrets,  *)
(* processes, versions and master keys.                                     *)
EXTENDS SecretVault, TLAPS

(* ---- Types ---- *)

LEMMA Constants ==
  /\ 1 \in Number /\ 1 \in Mek /\ 0 \notin Number
  /\ Number \subseteq Nat /\ Mek \subseteq Nat
  /\ NoWrap \in Wrap /\ NoContent \in Content
  /\ Idle \in Job /\ NoCopies \in Copies
BY SecretVaultAssumption DEF Number, Mek, NoWrap, Wrap, NoContent, Content,
     Idle, Job, NoCopies, NoVersions, Copies

(* A row of icebox_secrets with another wrapped DEK is still one. *)
LEMMA RewrappedContent ==
  ASSUME NEW c \in Content, NEW d \in Number \cup {0}, NEW k \in Mek \cup {0}
  PROVE  [c EXCEPT !.dek = d, !.mek = k] \in Content
BY DEF Content

LEMMA InitType == Init => TypeOK
<1> SUFFICES ASSUME Init PROVE TypeOK
  OBVIOUS
<1>1. VaultOK
  BY Constants DEF Init, VaultOK, NoVersions
<1>2. OnceOK
  BY Constants DEF Init, OnceOK
<1>3. KeyOK
  BY Constants DEF Init, KeyOK
<1>4. LocalOK
  BY Constants DEF Init, LocalOK, JobOK, Idle, Rotating
<1>5. QED
  BY <1>1, <1>2, <1>3, <1>4 DEF TypeOK

(* A process that becomes idle, and one that takes up or goes on with a job. *)
LEMMA LeaveType ==
  ASSUME LocalOK, NEW p \in Process, Leave(p),
         UNCHANGED conn \/ \E c \in {"ok", "aborted"} : conn' = [conn EXCEPT ![p] = c]
  PROVE  LocalOK'
<1>1. doing' \in [Process -> Job] /\ seen' \in [Process -> Copies]
  BY Constants DEF LocalOK, Leave
<1>2. \A q \in Process : JobOK(q)'
  BY DEF LocalOK, JobOK, Leave, Idle, Rotating
<1>3. QED
  BY <1>1, <1>2 DEF LocalOK

LEMMA EnterType ==
  ASSUME LocalOK, NEW p \in Process, NEW j \in Job,
         j.op \in Rotating => j.on \in Secret,
         j.op = "numbered" => j.number \in Number,
         j.op \in {"view", "claimed"} => j.on \in Token,
         j.op \in {"collect", "rewrap"} => j.mek \in Mek,
         doing' = [doing EXCEPT ![p] = j], UNCHANGED conn,
         seen' \in [Process -> Copies]
  PROVE  LocalOK'
BY DEF LocalOK, JobOK

LEMMA KeepType ==
  ASSUME TypeOK, NEW p \in Process, Keep(p)
  PROVE  TypeOK'
<1> USE DEF TypeOK
<1>1. ASSUME NEW s \in Secret, CreateSecret(p, s)
      PROVE  TypeOK'
  <2>1. [value |-> 1, dek |-> 1, mek |-> mekNow[p]] \in Content
        /\ [dek |-> 1, mek |-> mekNow[p]] \in Wrap
    BY Constants DEF KeyOK, Content, Wrap
  <2>2. VaultOK'
    BY <1>1, <2>1, Constants DEF CreateSecret, VaultOK
  <2>3. OnceOK' /\ KeyOK' /\ LocalOK'
    BY <1>1 DEF CreateSecret, onceVars, keyVars, OnceOK, KeyOK, LocalOK, JobOK
  <2>4. QED
    BY <2>2, <2>3
<1>2. ASSUME NEW s \in Secret, DeleteSecret(p, s)
      PROVE  TypeOK'
  <2>1. VaultOK'
    BY <1>2, Constants DEF DeleteSecret, VaultOK, NoVersions
  <2>2. OnceOK' /\ KeyOK' /\ LocalOK'
    BY <1>2 DEF DeleteSecret, onceVars, keyVars, OnceOK, KeyOK, LocalOK, JobOK
  <2>3. QED
    BY <2>1, <2>2
<1>3. ASSUME NEW s \in Secret, BeginRotate(p, s)
      PROVE  TypeOK'
  <2> DEFINE j == [Idle EXCEPT !.op = "match", !.on = s, !.batch = Undeprecated(s)]
  <2>1. j \in Job /\ j.op = "match" /\ j.on \in Secret
    BY DEF Idle, Job, Rotating, Undeprecated, Numbers
  <2>2. LocalOK'
    BY <1>3, <2>1, EnterType DEF BeginRotate, LocalOK
  <2>3. VaultOK' /\ OnceOK' /\ KeyOK'
    BY <1>3 DEF BeginRotate, vaultVars, onceVars, keyVars, VaultOK, OnceOK, KeyOK
  <2>4. QED
    BY <2>2, <2>3
<1>4. CASE Deprecate(p)
  <2> DEFINE j == [doing[p] EXCEPT !.op = "locked",
                     !.batch = doing[p].batch \cap Undeprecated(doing[p].on)]
  <2>1. doing[p] \in Job /\ doing[p].on \in Secret
    BY <1>4 DEF Deprecate, LocalOK, JobOK, Rotating
  <2>2. j \in Job /\ j.op = "locked" /\ j.on \in Secret
    BY <2>1 DEF Job, Rotating
  <2>3. doing' = [doing EXCEPT ![p] = j]
    BY <1>4, <2>1 DEF Deprecate, LocalOK, Job
  <2>4. LocalOK'
    BY <1>4, <2>2, <2>3, EnterType DEF Deprecate, LocalOK
  <2>5. VaultOK' /\ OnceOK' /\ KeyOK'
    BY <1>4 DEF Deprecate, vaultVars, onceVars, keyVars, VaultOK, OnceOK, KeyOK
  <2>6. QED
    BY <2>4, <2>5
<1>5. CASE PickNumber(p)
  <2>1. PICK n \in Number :
          doing' = [doing EXCEPT ![p].op = "numbered", ![p].number = n]
    BY <1>5 DEF PickNumber
  <2> DEFINE j == [doing[p] EXCEPT !.op = "numbered", !.number = n]
  <2>2. doing[p] \in Job /\ doing[p].on \in Secret
    BY <1>5 DEF PickNumber, LocalOK, JobOK, Rotating
  <2>3. j \in Job /\ j.op = "numbered" /\ j.on \in Secret /\ j.number \in Number
    BY <2>2 DEF Job, Rotating
  <2>4. doing' = [doing EXCEPT ![p] = j]
    BY <2>1, <2>2 DEF LocalOK, Job
  <2>5. LocalOK'
    BY <1>5, <2>3, <2>4, EnterType DEF PickNumber, LocalOK
  <2>6. VaultOK' /\ OnceOK' /\ KeyOK'
    BY <1>5 DEF PickNumber, vaultVars, onceVars, keyVars, VaultOK, OnceOK, KeyOK
  <2>7. QED
    BY <2>5, <2>6
<1>6. CASE FinishRotate(p)
  <2>1. doing[p].on \in Secret /\ doing[p].number \in Number /\ doing[p].batch \subseteq Number
    BY <1>6 DEF FinishRotate, LocalOK, JobOK, Job, Rotating
  <2>2. ContentOf(p) \in Content
        /\ [dek |-> doing[p].number, mek |-> mekNow[p]] \in Wrap
        /\ DeprecatedBy(p) \subseteq Number
    BY <2>1 DEF ContentOf, Content, Wrap, DeprecatedBy, KeyOK, VaultOK
  <2>3. VaultOK'
    <3>1. CASE Refused(p)
      BY <1>6, <3>1 DEF FinishRotate, vaultVars, VaultOK
    <3>2. CASE ~Refused(p)
      <4> DEFINE s == doing[p].on
                 n == doing[p].number
                 w == [wrap[s] EXCEPT ![n] = [dek |-> n, mek |-> mekNow[p]]]
      <4>1. /\ wrap' = [wrap EXCEPT ![s] = w]
            /\ deprecated' = [deprecated EXCEPT ![s] = DeprecatedBy(p)]
            /\ current' = [current EXCEPT ![s] = ContentOf(p)]
            /\ row' = row
        BY <1>6, <3>2 DEF FinishRotate
      <4>2. w \in [Number -> Wrap]
        BY <2>1, <2>2 DEF VaultOK
      <4> HIDE DEF s, w
      <4>3. QED
        BY <2>2, <4>1, <4>2 DEF VaultOK
    <3>3. QED
      BY <3>1, <3>2
  <2>4. LocalOK'
    BY <1>6, LeaveType DEF FinishRotate
  <2>5. OnceOK' /\ KeyOK'
    BY <1>6 DEF FinishRotate, onceVars, keyVars, OnceOK, KeyOK
  <2>6. QED
    BY <2>3, <2>4, <2>5
<1>7. QED
  BY <1>1, <1>2, <1>3, <1>4, <1>5, <1>6 DEF Keep

LEMMA RewrapType ==
  ASSUME TypeOK, NEW p \in Process, Rewrap(p)
  PROVE  TypeOK'
<1> USE DEF TypeOK
<1>1. ASSUME NEW k \in Mek, BeginRewrap(p, k)
      PROVE  TypeOK'
  <2> DEFINE j == [Idle EXCEPT !.op = "collect", !.mek = k]
             c == [s \in Secret |->
                    IF row[s] = "stored" /\ current[s].mek # k
                    THEN [dek |-> current[s].dek, mek |-> current[s].mek] ELSE NoWrap]
  <2>1. j \in Job /\ j.op = "collect" /\ j.mek \in Mek
    BY DEF Idle, Job, Rotating
  <2>2. c \in [Secret -> Wrap]
    BY Constants DEF VaultOK, Content, Wrap
  <2> HIDE DEF c
  <2>3. seen' \in [Process -> Copies]
    <3>1. seen' = [seen EXCEPT ![p].current = c]
      BY <1>1 DEF BeginRewrap, c
    <3>2. QED
      BY <2>2, <3>1 DEF LocalOK, Copies
  <2>4. LocalOK'
    BY <1>1, <2>1, <2>3, EnterType DEF BeginRewrap, Rotating
  <2>5. VaultOK' /\ OnceOK' /\ KeyOK'
    BY <1>1 DEF BeginRewrap, vaultVars, onceVars, keyVars, VaultOK, OnceOK, KeyOK
  <2>6. QED
    BY <2>4, <2>5
<1>2. CASE Collect(p)
  <2> DEFINE k == doing[p].mek
             j == [doing[p] EXCEPT !.op = "rewrap"]
             w == [s \in Secret |-> [n \in Number |->
                     IF wrap[s][n].mek # k THEN wrap[s][n] ELSE NoWrap]]
             o == {t \in Token : seal[t] # "none" /\ sealMek[t] # k}
  <2>1. doing[p] \in Job /\ k \in Mek
    BY <1>2 DEF Collect, LocalOK, JobOK
  <2>2. j \in Job /\ j.op = "rewrap" /\ j.mek \in Mek /\ doing' = [doing EXCEPT ![p] = j]
    BY <1>2, <2>1 DEF Collect, LocalOK, Job
  <2>3. w \in [Secret -> [Number -> Wrap]]
    BY Constants DEF VaultOK
  <2>4. o \subseteq Token /\ sealMek \in [Token -> Mek \cup {0}]
    BY DEF OnceOK
  <2> HIDE DEF w, o
  <2>5. seen' = [seen EXCEPT ![p].wrap = w, ![p].once = o, ![p].mek = sealMek]
    BY <1>2 DEF Collect, w, o
  <2>6. seen' \in [Process -> Copies]
    <3> DEFINE c == [seen[p] EXCEPT !.wrap = w, !.once = o, !.mek = sealMek]
    <3>1. seen[p] \in Copies
      BY DEF LocalOK
    <3>2. c \in Copies
      BY <2>3, <2>4, <3>1 DEF Copies
    <3>3. seen' = [seen EXCEPT ![p] = c]
      BY <2>5, <3>1 DEF LocalOK, Copies
    <3> HIDE DEF c
    <3>4. QED
      BY <3>2, <3>3 DEF LocalOK
  <2>7. LocalOK'
    BY <1>2, <2>2, <2>6, EnterType DEF Collect, Rotating
  <2>8. VaultOK' /\ OnceOK' /\ KeyOK'
    BY <1>2 DEF Collect, vaultVars, onceVars, keyVars, VaultOK, OnceOK, KeyOK
  <2>9. QED
    BY <2>7, <2>8
<1>3. CASE RewrapRaises(p)
  <2>1. LocalOK'
    BY <1>3, LeaveType DEF RewrapRaises
  <2>2. VaultOK' /\ OnceOK' /\ KeyOK'
    BY <1>3 DEF RewrapRaises, vaultVars, onceVars, keyVars, VaultOK, OnceOK, KeyOK
  <2>3. QED
    BY <2>1, <2>2
<1>4. CASE FinishRewrap(p)
  <2> DEFINE k == doing[p].mek
  <2>1. k \in Mek /\ seen[p] \in Copies
    BY <1>4 DEF FinishRewrap, LocalOK, JobOK
  <2>2. current' \in [Secret -> Content]
    <3>1. ASSUME NEW s \in Secret
          PROVE  [current[s] EXCEPT !.dek = seen[p].current[s].dek, !.mek = k] \in Content
      <4> DEFINE d == seen[p].current[s].dek
      <4>1. seen[p].current[s] \in Wrap
        BY <2>1 DEF Copies
      <4>2. d \in Number \cup {0} /\ k \in Mek \cup {0} /\ current[s] \in Content
        BY <2>1, <4>1 DEF Wrap, VaultOK
      <4>3. QED
        BY <4>2, RewrappedContent
    <3>2. QED
      BY <1>4, <3>1 DEF FinishRewrap, VaultOK
  <2>3. wrap' \in [Secret -> [Number -> Wrap]]
    <3>1. ASSUME NEW s \in Secret, NEW n \in Number
          PROVE  [dek |-> RewrapOfRow(p, s, n).dek, mek |-> k] \in Wrap
      BY <2>1 DEF RewrapOfRow, Copies, Wrap
    <3>2. wrap' = [s \in Secret |-> [n \in Number |->
             IF n \in Numbers(s) /\ seen[p].wrap[s][n] # NoWrap
             THEN [dek |-> RewrapOfRow(p, s, n).dek, mek |-> doing[p].mek]
             ELSE wrap[s][n]]]
      BY <1>4 DEF FinishRewrap
    <3>3. ASSUME NEW s \in Secret, NEW n \in Number
          PROVE  wrap[s][n] \in Wrap
      BY DEF VaultOK
    <3>4. ASSUME NEW s \in Secret
          PROVE  wrap'[s] \in [Number -> Wrap]
      <4> DEFINE e(n) == IF n \in Numbers(s) /\ seen[p].wrap[s][n] # NoWrap
                         THEN [dek |-> RewrapOfRow(p, s, n).dek, mek |-> k]
                         ELSE wrap[s][n]
      <4>1. \A n \in Number : e(n) \in Wrap
        BY <3>1, <3>3
      <4>2. wrap'[s] = [n \in Number |-> e(n)]
        BY <3>2
      <4> HIDE DEF e
      <4>3. QED
        BY <4>1, <4>2
    <3>5. QED
      BY <3>2, <3>4
  <2>4. VaultOK'
    BY <1>4, <2>2, <2>3 DEF FinishRewrap, VaultOK
  <2>5. OnceOK'
    BY <1>4, <2>1 DEF FinishRewrap, OnceOK
  <2>6. KeyOK'
    BY <1>4, <2>1 DEF FinishRewrap, KeyOK
  <2>7. LocalOK'
    BY <1>4, LeaveType DEF FinishRewrap
  <2>8. QED
    BY <2>4, <2>5, <2>6, <2>7
<1>5. CASE PersistFails(p)
  <2>1. doing[p].mek \in Mek
    BY <1>5 DEF PersistFails, LocalOK, JobOK
  <2>2. KeyOK'
    BY <1>5, <2>1 DEF PersistFails, KeyOK
  <2>3. LocalOK'
    BY <1>5, LeaveType DEF PersistFails
  <2>4. VaultOK' /\ OnceOK'
    BY <1>5 DEF PersistFails, vaultVars, onceVars, VaultOK, OnceOK
  <2>5. QED
    BY <2>2, <2>3, <2>4
<1>6. QED
  BY <1>1, <1>2, <1>3, <1>4, <1>5 DEF Rewrap
LEMMA ViewType ==
  ASSUME TypeOK, NEW p \in Process, View(p)
  PROVE  TypeOK'
<1> USE DEF TypeOK
<1>1. ASSUME NEW t \in Token, CreateToken(p, t)
      PROVE  TypeOK'
  <2>1. OnceOK'
    BY <1>1, Constants DEF CreateToken, OnceOK, KeyOK
  <2>2. VaultOK' /\ KeyOK' /\ LocalOK'
    BY <1>1 DEF CreateToken, vaultVars, keyVars, VaultOK, KeyOK, LocalOK, JobOK
  <2>3. QED
    BY <2>1, <2>2
<1>2. ASSUME NEW t \in Token, BeginView(p, t)
      PROVE  TypeOK'
  <2> DEFINE j == [Idle EXCEPT !.op = "view", !.on = t, !.mek = sealMek[t]]
  <2>1. j \in Job /\ j.op = "view" /\ j.on \in Token
    BY DEF Idle, Job, Rotating, OnceOK
  <2>2. LocalOK'
    BY <1>2, <2>1, EnterType DEF BeginView, LocalOK, Rotating
  <2>3. VaultOK' /\ OnceOK' /\ KeyOK'
    BY <1>2 DEF BeginView, vaultVars, onceVars, keyVars, VaultOK, OnceOK, KeyOK
  <2>4. QED
    BY <2>2, <2>3
<1>3. CASE ClaimView(p)
  <2> DEFINE t == doing[p].on
  <2>1. t \in Token /\ doing[p] \in Job
    BY <1>3 DEF ClaimView, LocalOK, JobOK
  <2>2. CASE Unviewed(t)
    <3> DEFINE j == [doing[p] EXCEPT !.op = "claimed"]
    <3>1. j \in Job /\ j.op = "claimed" /\ j.on \in Token
      BY <2>1 DEF Job, Rotating
    <3>2. doing' = [doing EXCEPT ![p] = j]
      BY <1>3, <2>2, <2>1 DEF ClaimView, LocalOK, Job
    <3>3. LocalOK'
      BY <1>3, <2>2, <3>1, <3>2, EnterType DEF ClaimView, LocalOK, Rotating
    <3>4. OnceOK'
      BY <1>3, <2>1, <2>2 DEF ClaimView, Unviewed, OnceOK
    <3>5. VaultOK' /\ KeyOK'
      BY <1>3 DEF ClaimView, vaultVars, keyVars, VaultOK, KeyOK
    <3>6. QED
      BY <3>3, <3>4, <3>5
  <2>3. CASE ~Unviewed(t)
    <3>1. LocalOK'
      BY <1>3, <2>3, LeaveType DEF ClaimView
    <3>2. VaultOK' /\ OnceOK' /\ KeyOK'
      BY <1>3, <2>3 DEF ClaimView, vaultVars, keyVars, VaultOK, OnceOK, KeyOK
    <3>3. QED
      BY <3>1, <3>2
  <2>4. QED
    BY <2>2, <2>3
<1>4. CASE AnswerView(p)
  <2>1. LocalOK'
    BY <1>4, LeaveType DEF AnswerView
  <2>2. VaultOK' /\ KeyOK'
    BY <1>4 DEF AnswerView, vaultVars, keyVars, VaultOK, KeyOK
  <2>3. OnceOK'
    <3>1. doing[p].on \in Token
      BY <1>4 DEF AnswerView, LocalOK, JobOK
    <3>2. shown' \in [Token -> Nat]
      BY <1>4, <3>1 DEF AnswerView, OnceOK
    <3>3. QED
      BY <1>4, <3>2 DEF AnswerView, OnceOK
  <2>4. QED
    BY <2>1, <2>2, <2>3
<1>5. QED
  BY <1>1, <1>2, <1>3, <1>4 DEF View

LEMMA EnvironmentType ==
  ASSUME TypeOK,
         \/ ConfigureMek
         \/ \E t \in Token : Expire(t)
         \/ \E p \in Process : Restart(p) \/ StatementFails(p)
  PROVE  TypeOK'
<1> USE DEF TypeOK
<1>1. CASE ConfigureMek
  <2>1. KeyOK'
    BY <1>1, SecretVaultAssumption DEF ConfigureMek, KeyOK, Mek
  <2>2. VaultOK' /\ OnceOK' /\ LocalOK'
    BY <1>1 DEF ConfigureMek, vaultVars, onceVars, VaultOK, OnceOK, LocalOK, JobOK
  <2>3. QED
    BY <2>1, <2>2
<1>2. ASSUME NEW t \in Token, Expire(t)
      PROVE  TypeOK'
  <2>1. OnceOK'
    BY <1>2 DEF Expire, OnceOK
  <2>2. VaultOK' /\ KeyOK' /\ LocalOK'
    BY <1>2 DEF Expire, vaultVars, keyVars, VaultOK, KeyOK, LocalOK, JobOK
  <2>3. QED
    BY <2>1, <2>2
<1>3. ASSUME NEW p \in Process, Restart(p)
      PROVE  TypeOK'
  <2>1. LocalOK'
    BY <1>3, LeaveType DEF Restart
  <2>2. KeyOK'
    BY <1>3 DEF Restart, KeyOK
  <2>3. VaultOK' /\ OnceOK'
    BY <1>3 DEF Restart, vaultVars, onceVars, VaultOK, OnceOK
  <2>4. QED
    BY <2>1, <2>2, <2>3
<1>4. ASSUME NEW p \in Process, StatementFails(p)
      PROVE  TypeOK'
  <2>1. LocalOK'
    BY <1>4, LeaveType DEF StatementFails
  <2>2. VaultOK' /\ OnceOK' /\ KeyOK'
    BY <1>4 DEF StatementFails, vaultVars, onceVars, keyVars, VaultOK, OnceOK, KeyOK
  <2>3. QED
    BY <2>1, <2>2
<1>5. QED
  BY <1>1, <1>2, <1>3, <1>4

LEMMA NextType == TypeOK /\ [Next]_vars => TypeOK'
<1> SUFFICES ASSUME TypeOK, [Next]_vars PROVE TypeOK'
  OBVIOUS
<1>1. CASE Next
  BY <1>1, KeepType, RewrapType, ViewType, EnvironmentType DEF Next
<1>2. CASE UNCHANGED vars
  BY <1>2 DEF vars, vaultVars, onceVars, keyVars, TypeOK, VaultOK, OnceOK,
              KeyOK, LocalOK, JobOK
<1>3. QED
  BY <1>1, <1>2

(* Every variable keeps its type: a rotation in progress has a secret, a     *)
(* numbered one its number, and a sealed value the version of its key.       *)
THEOREM TypeCorrect == Spec => []TypeOK
<1>1. Init => TypeOK
  BY InitType
<1>2. TypeOK /\ [Next]_vars => TypeOK'
  BY NextType
<1>3. QED
  BY <1>1, <1>2, PTL DEF Spec
-----------------------------------------------------------------------------
(* ---- The history of a secret ---- *)

(* No process has, or rotates to, a master key that is not configured.       *)
KeysConfigured ==
  \A p \in Process :
    /\ loaded[p] <= env
    /\ mekNow[p] <= env
    /\ doing[p].op \in {"collect", "rewrap"} => doing[p].mek <= env

(* A copy of a version's row holds that version's DEK, however old it is.    *)
CopiesAreTheirs ==
  \A p \in Process : \A s \in Secret : \A n \in Number :
    seen[p].wrap[s][n] # NoWrap => seen[p].wrap[s][n].dek = n

HistoryInv == HistoryIsReadable /\ KeysConfigured /\ CopiesAreTheirs

LEMMA InitHistory == Init => HistoryInv
<1> SUFFICES ASSUME Init PROVE HistoryInv
  OBVIOUS
<1>1. HistoryIsReadable
  BY DEF Init, HistoryIsReadable, Numbers, NoVersions
<1>2. KeysConfigured
  BY DEF Init, KeysConfigured, Idle
<1>3. CopiesAreTheirs
  BY DEF Init, CopiesAreTheirs, NoCopies, NoVersions
<1>4. QED
  BY <1>1, <1>2, <1>3 DEF HistoryInv

(* Steps that write no version leave the history readable: env only grows.   *)
LEMMA HistoryKept ==
  ASSUME TypeOK, HistoryIsReadable, UNCHANGED wrap, env' \in Nat, env <= env'
  PROVE  HistoryIsReadable'
<1>1. \A s \in Secret : Numbers(s)' = Numbers(s)
  BY DEF Numbers
<1>2. ASSUME NEW s \in Secret, NEW n \in Numbers(s)
      PROVE  wrap'[s][n].dek = n /\ wrap'[s][n].mek \in 1..env'
  <2>1. wrap[s][n].dek = n /\ wrap[s][n].mek \in 1..env
    BY <1>2 DEF HistoryIsReadable
  <2>2. env \in Nat
    BY SecretVaultAssumption DEF TypeOK, KeyOK, Mek
  <2>3. QED
    BY <2>1, <2>2
<1>3. QED
  BY <1>1, <1>2 DEF HistoryIsReadable

(* A step that gives no process a key and no MEK rotation another target.    *)
Retargets == \E q \in Process :
  /\ doing'[q].op \in {"collect", "rewrap"}
  /\ ~(doing[q].op \in {"collect", "rewrap"} /\ doing'[q].mek = doing[q].mek)

LEMMA NotRetargeted ==
  ASSUME TypeOK, NEW p \in Process,
         \/ UNCHANGED doing
         \/ Leave(p)
         \/ \E j \in Job : /\ doing' = [doing EXCEPT ![p] = j]
                          /\ j.op \notin {"collect", "rewrap"}
  PROVE  ~Retargets
BY DEF Retargets, Leave, Idle, TypeOK, LocalOK

LEMMA KeepDoing ==
  ASSUME TypeOK, NEW p \in Process, Keep(p)
  PROVE  ~Retargets /\ UNCHANGED keyVars
<1>1. ASSUME NEW s \in Secret, CreateSecret(p, s) \/ DeleteSecret(p, s)
      PROVE  ~Retargets /\ UNCHANGED keyVars
  BY <1>1, NotRetargeted DEF CreateSecret, DeleteSecret
<1>2. ASSUME NEW s \in Secret, BeginRotate(p, s)
      PROVE  ~Retargets /\ UNCHANGED keyVars
  BY <1>2 DEF BeginRotate, Retargets, Idle, TypeOK, LocalOK
<1>3. CASE Deprecate(p)
  BY <1>3 DEF Deprecate, Retargets, TypeOK, LocalOK, Job
<1>4. CASE PickNumber(p)
  BY <1>4 DEF PickNumber, Retargets, TypeOK, LocalOK, Job
<1>5. CASE FinishRotate(p)
  BY <1>5, NotRetargeted DEF FinishRotate
<1>6. QED
  BY <1>1, <1>2, <1>3, <1>4, <1>5 DEF Keep

LEMMA ViewDoing ==
  ASSUME TypeOK, NEW p \in Process, View(p)
  PROVE  ~Retargets /\ UNCHANGED keyVars
<1>1. ASSUME NEW t \in Token, CreateToken(p, t)
      PROVE  ~Retargets /\ UNCHANGED keyVars
  BY <1>1, NotRetargeted DEF CreateToken
<1>2. ASSUME NEW t \in Token, BeginView(p, t)
      PROVE  ~Retargets /\ UNCHANGED keyVars
  BY <1>2 DEF BeginView, Retargets, Idle, TypeOK, LocalOK
<1>3. CASE ClaimView(p)
  <2>1. CASE Unviewed(doing[p].on)
    BY <1>3, <2>1 DEF ClaimView, Retargets, TypeOK, LocalOK, Job
  <2>2. CASE ~Unviewed(doing[p].on)
    BY <1>3, <2>2, NotRetargeted DEF ClaimView
  <2>3. QED
    BY <2>1, <2>2
<1>4. CASE AnswerView(p)
  BY <1>4, NotRetargeted DEF AnswerView
<1>5. QED
  BY <1>1, <1>2, <1>3, <1>4 DEF View

LEMMA NextKeys ==
  ASSUME TypeOK, KeysConfigured, Next
  PROVE  KeysConfigured'
<1>1. env \in Nat /\ \A p \in Process : loaded[p] \in Nat /\ mekNow[p] \in Nat
  BY SecretVaultAssumption DEF TypeOK, KeyOK, Mek
<1>2. CASE ~Retargets /\ UNCHANGED keyVars
  BY <1>2 DEF Retargets, keyVars, KeysConfigured
<1>3. ASSUME NEW p \in Process, NEW k \in Mek, BeginRewrap(p, k)
      PROVE  KeysConfigured'
  <2>1. k <= env /\ UNCHANGED keyVars
    BY <1>1, <1>3 DEF BeginRewrap, KeysConfigured, Mek
  <2>2. QED
    BY <1>3, <2>1 DEF BeginRewrap, keyVars, KeysConfigured, Idle, TypeOK, LocalOK
<1>4. ASSUME NEW p \in Process, Collect(p)
      PROVE  KeysConfigured'
  <2>1. ~Retargets
    BY <1>4 DEF Collect, Retargets, TypeOK, LocalOK, Job
  <2>2. QED
    BY <1>2, <1>4, <2>1 DEF Collect
<1>5. ASSUME NEW p \in Process, RewrapRaises(p)
      PROVE  KeysConfigured'
  BY <1>2, <1>5, NotRetargeted DEF RewrapRaises
<1>6. ASSUME NEW p \in Process, FinishRewrap(p) \/ PersistFails(p)
      PROVE  KeysConfigured'
  <2>1. ~Retargets
    BY <1>6, NotRetargeted DEF FinishRewrap, PersistFails
  <2>2. doing[p].mek <= env /\ UNCHANGED <<env, loaded>>
    BY <1>6 DEF FinishRewrap, PersistFails, KeysConfigured
  <2>3. mekNow' = [mekNow EXCEPT ![p] = doing[p].mek]
    BY <1>6 DEF FinishRewrap, PersistFails
  <2>4. QED
    BY <2>1, <2>2, <2>3 DEF Retargets, KeysConfigured, TypeOK, KeyOK
<1>7. ASSUME NEW p \in Process, Restart(p)
      PROVE  KeysConfigured'
  <2>1. ~Retargets
    BY <1>7, NotRetargeted DEF Restart
  <2>2. QED
    BY <1>1, <1>7, <2>1 DEF Restart, Retargets, KeysConfigured, TypeOK, KeyOK
<1>8. ASSUME NEW p \in Process, StatementFails(p)
      PROVE  KeysConfigured'
  BY <1>2, <1>8, NotRetargeted DEF StatementFails
<1>9. CASE ConfigureMek
  <2>1. env <= env' /\ env' \in Nat
    BY <1>1, <1>9 DEF ConfigureMek
  <2>2. \A p \in Process : doing[p].op \in {"collect", "rewrap"} => doing[p].mek \in Nat
    BY SecretVaultAssumption DEF TypeOK, LocalOK, JobOK, Mek
  <2>3. QED
    BY <1>1, <1>9, <2>1, <2>2 DEF ConfigureMek, KeysConfigured
<1>10. ASSUME NEW t \in Token, Expire(t)
       PROVE  KeysConfigured'
  BY <1>10 DEF Expire, keyVars, KeysConfigured
<1>11. QED
  BY <1>2, <1>3, <1>4, <1>5, <1>6, <1>7, <1>8, <1>9, <1>10, KeepDoing, ViewDoing
     DEF Next, Rewrap

LEMMA NextCopies ==
  ASSUME TypeOK, HistoryIsReadable, CopiesAreTheirs, Next
  PROVE  CopiesAreTheirs'
<1>1. CASE UNCHANGED seen
  BY <1>1 DEF CopiesAreTheirs
<1>2. ASSUME NEW p \in Process, Leave(p)
      PROVE  CopiesAreTheirs'
  BY <1>2 DEF Leave, NoCopies, NoVersions, CopiesAreTheirs, TypeOK, LocalOK
<1>3. ASSUME NEW p \in Process, NEW k \in Mek, BeginRewrap(p, k)
      PROVE  CopiesAreTheirs'
  BY <1>3 DEF BeginRewrap, CopiesAreTheirs, TypeOK, LocalOK, Copies
<1>4. ASSUME NEW p \in Process, Collect(p)
      PROVE  CopiesAreTheirs'
  <2>1. \A q \in Process \ {p} : seen'[q] = seen[q]
    BY <1>4 DEF Collect, TypeOK, LocalOK
  <2>2. ASSUME NEW s \in Secret, NEW n \in Number, seen'[p].wrap[s][n] # NoWrap
        PROVE  seen'[p].wrap[s][n].dek = n
    <3>1. seen'[p].wrap[s][n] = wrap[s][n]
      BY <1>4, <2>2 DEF Collect, TypeOK, LocalOK, Copies
    <3>2. n \in Numbers(s)
      BY <2>2, <3>1 DEF Numbers
    <3>3. QED
      BY <3>1, <3>2 DEF HistoryIsReadable
  <2>3. QED
    BY <2>1, <2>2 DEF CopiesAreTheirs
<1>5. ASSUME NEW p \in Process, Keep(p)
      PROVE  CopiesAreTheirs'
  BY <1>1, <1>2, <1>5 DEF Keep, CreateSecret, DeleteSecret, BeginRotate, Deprecate,
       PickNumber, FinishRotate
<1>6. ASSUME NEW p \in Process, View(p) \/ Restart(p) \/ StatementFails(p)
      PROVE  CopiesAreTheirs'
  BY <1>1, <1>2, <1>6 DEF View, CreateToken, BeginView, ClaimView, AnswerView,
       Restart, StatementFails
<1>7. ASSUME NEW p \in Process, Rewrap(p)
      PROVE  CopiesAreTheirs'
  BY <1>2, <1>3, <1>4, <1>7 DEF Rewrap, RewrapRaises, FinishRewrap, PersistFails
<1>8. CASE ConfigureMek \/ \E t \in Token : Expire(t)
  BY <1>1, <1>8 DEF ConfigureMek, Expire
<1>9. QED
  BY <1>5, <1>6, <1>7, <1>8 DEF Next

LEMMA NextReadable ==
  ASSUME TypeOK, HistoryInv, Next
  PROVE  HistoryIsReadable'
<1> USE DEF HistoryInv
<1>1. env \in Nat
  BY SecretVaultAssumption DEF TypeOK, KeyOK, Mek
<1>2. CASE UNCHANGED wrap /\ UNCHANGED env
  BY <1>1, <1>2, HistoryKept
<1>3. ASSUME NEW p \in Process, NEW s \in Secret, NEW n \in Number,
             wrap' = [wrap EXCEPT ![s][n] = [dek |-> n, mek |-> mekNow[p]]],
             UNCHANGED env
      PROVE  HistoryIsReadable'
  <2>1. mekNow[p] \in 1..env
    BY <1>1, SecretVaultAssumption DEF KeysConfigured, TypeOK, KeyOK, Mek
  <2>2. ASSUME NEW r \in Secret, NEW m \in Numbers(r)'
        PROVE  wrap'[r][m].dek = m /\ wrap'[r][m].mek \in 1..env'
    <3>1. CASE r = s /\ m = n
      BY <1>3, <2>1, <3>1 DEF TypeOK, VaultOK
    <3>2. CASE ~(r = s /\ m = n)
      <4>1. m \in Number /\ wrap'[r][m] = wrap[r][m]
        BY <1>3, <3>2 DEF TypeOK, VaultOK, Numbers
      <4>2. m \in Numbers(r)
        BY <4>1 DEF Numbers
      <4>3. QED
        BY <1>3, <4>1, <4>2 DEF HistoryIsReadable
    <3>3. QED
      BY <3>1, <3>2
  <2>3. QED
    BY <2>2 DEF HistoryIsReadable
<1>4. ASSUME NEW p \in Process, NEW s \in Secret, CreateSecret(p, s)
      PROVE  HistoryIsReadable'
  BY <1>3, <1>4, Constants DEF CreateSecret, keyVars
<1>5. ASSUME NEW p \in Process, NEW s \in Secret, DeleteSecret(p, s)
      PROVE  HistoryIsReadable'
  <2>1. \A r \in Secret \ {s} : wrap'[r] = wrap[r]
    BY <1>5 DEF DeleteSecret, TypeOK, VaultOK
  <2>2. wrap'[s] = NoVersions /\ env' = env
    BY <1>5 DEF DeleteSecret, keyVars, TypeOK, VaultOK
  <2>3. QED
    BY <2>1, <2>2 DEF HistoryIsReadable, Numbers, NoVersions
<1>6. ASSUME NEW p \in Process, FinishRotate(p)
      PROVE  HistoryIsReadable'
  <2>1. doing[p].on \in Secret /\ doing[p].number \in Number /\ UNCHANGED env
    BY <1>6 DEF FinishRotate, keyVars, TypeOK, LocalOK, JobOK, Rotating
  <2>2. CASE Refused(p)
    BY <1>2, <1>6, <2>1, <2>2 DEF FinishRotate, vaultVars
  <2>3. CASE ~Refused(p)
    BY <1>3, <1>6, <2>1, <2>3 DEF FinishRotate
  <2>4. QED
    BY <2>2, <2>3
<1>7. ASSUME NEW p \in Process, FinishRewrap(p)
      PROVE  HistoryIsReadable'
  <2> DEFINE k == doing[p].mek
  <2>1. k \in 1..env
    <3>1. doing[p].op = "rewrap"
      BY <1>7 DEF FinishRewrap
    <3>2. k \in Mek
      BY <3>1 DEF TypeOK, LocalOK, JobOK
    <3>3. k <= env
      BY <3>1 DEF KeysConfigured
    <3>4. QED
      BY <1>1, <3>2, <3>3, SecretVaultAssumption DEF Mek
  <2>2. ASSUME NEW s \in Secret, NEW n \in Numbers(s)'
        PROVE  wrap'[s][n].dek = n /\ wrap'[s][n].mek \in 1..env'
    <3>1. n \in Number /\ env' = env
      BY <1>7 DEF FinishRewrap, Numbers
    <3>2. CASE n \in Numbers(s) /\ seen[p].wrap[s][n] # NoWrap
      <4>1. wrap'[s][n] = [dek |-> seen[p].wrap[s][n].dek, mek |-> k]
        BY <1>7, <3>1, <3>2 DEF FinishRewrap, RewrapOfRow
      <4>2. seen[p].wrap[s][n].dek = n
        BY <3>1, <3>2 DEF CopiesAreTheirs
      <4>3. QED
        BY <2>1, <3>1, <4>1, <4>2
    <3>3. CASE ~(n \in Numbers(s) /\ seen[p].wrap[s][n] # NoWrap)
      <4>1. wrap'[s][n] = wrap[s][n]
        BY <1>7, <3>1, <3>3 DEF FinishRewrap
      <4>2. n \in Numbers(s)
        BY <3>1, <4>1 DEF Numbers
      <4>3. QED
        BY <3>1, <4>1, <4>2 DEF HistoryIsReadable
    <3>4. QED
      BY <3>2, <3>3
  <2>3. QED
    BY <2>2 DEF HistoryIsReadable
<1>8. ASSUME NEW p \in Process, Keep(p)
      PROVE  HistoryIsReadable'
  BY <1>2, <1>4, <1>5, <1>6, <1>8 DEF Keep, BeginRotate, Deprecate, PickNumber,
       vaultVars, keyVars
<1>9. ASSUME NEW p \in Process, Rewrap(p)
      PROVE  HistoryIsReadable'
  BY <1>2, <1>7, <1>9 DEF Rewrap, BeginRewrap, Collect, RewrapRaises, PersistFails,
       vaultVars, keyVars
<1>10. ASSUME NEW p \in Process, View(p) \/ Restart(p) \/ StatementFails(p)
       PROVE  HistoryIsReadable'
  BY <1>2, <1>10 DEF View, CreateToken, BeginView, ClaimView, AnswerView, Restart,
       StatementFails, vaultVars, keyVars
<1>11. CASE ConfigureMek
  BY <1>1, <1>11, HistoryKept DEF ConfigureMek, vaultVars
<1>12. CASE \E t \in Token : Expire(t)
  BY <1>2, <1>12 DEF Expire, vaultVars, keyVars
<1>13. QED
  BY <1>8, <1>9, <1>10, <1>11, <1>12 DEF Next

LEMMA NextHistory == TypeOK /\ HistoryInv /\ [Next]_vars => HistoryInv'
<1> SUFFICES ASSUME TypeOK, HistoryInv, [Next]_vars PROVE HistoryInv'
  OBVIOUS
<1>1. CASE Next
  BY <1>1, NextReadable, NextKeys, NextCopies DEF HistoryInv
<1>2. CASE UNCHANGED vars
  <2>1. UNCHANGED <<wrap, env, loaded, mekNow, doing, seen>>
    BY <1>2 DEF vars, vaultVars, keyVars
  <2>2. HistoryIsReadable' /\ KeysConfigured' /\ CopiesAreTheirs'
    BY <2>1 DEF HistoryInv, HistoryIsReadable, Numbers, KeysConfigured, CopiesAreTheirs
  <2>3. QED
    BY <2>2 DEF HistoryInv
<1>3. QED
  BY <1>1, <1>2

(* However many rotations of values and of master keys overlap, every stored *)
(* version keeps its own DEK under a key that is configured.                 *)
THEOREM HistoryStaysReadable == Spec => []HistoryIsReadable
<1>1. Init => TypeOK /\ HistoryInv
  BY InitType, InitHistory
<1>2. TypeOK /\ HistoryInv /\ [Next]_vars => (TypeOK /\ HistoryInv)'
  BY NextType, NextHistory
<1>3. HistoryInv => HistoryIsReadable
  BY DEF HistoryInv
<1>4. QED
  BY <1>1, <1>2, <1>3, PTL DEF Spec
-----------------------------------------------------------------------------
(* ---- Rotations of a secret ---- *)

(* The versions of a secret are numbered from 1 to its current one.          *)
NumbersInOrder ==
  \A s \in Secret :
    /\ row[s] = "stored" => /\ current[s].value \in Number
                            /\ Numbers(s) = 1..current[s].value
    /\ row[s] # "stored" => Numbers(s) = {}

(* Only versions are deprecated, and not the current one.                    *)
OldDeprecated ==
  \A s \in Secret : deprecated[s] \subseteq Numbers(s) \ {current[s].value}

(* What a rotation under way is about to deprecate exists, and the number it *)
(* has picked is at most the next one: if others were faster, it is taken.   *)
Behind(p) ==
  doing[p].op \in Rotating =>
    /\ row[doing[p].on] # "none"
    /\ row[doing[p].on] = "stored" =>
         /\ doing[p].batch \subseteq Numbers(doing[p].on)
         /\ doing[p].op = "numbered" =>
              doing[p].number <= current[doing[p].on].value + 1

RotationsBehind == \A p \in Process : Behind(p)

RotationInv == NumbersInOrder /\ OldDeprecated /\ RotationsBehind

(* ---- One-time secrets ---- *)

(* Who has marked a secret viewed is alone with it, and has not shown it.    *)
ClaimsAlone ==
  /\ \A t \in Token : seal[t] # "opened" => shown[t] = 0
  /\ \A p \in Process : doing[p].op = "claimed" =>
       /\ seal[doing[p].on] = "opened"
       /\ shown[doing[p].on] = 0
       /\ \A q \in Process \ {p} :
            ~(doing[q].op = "claimed" /\ doing[q].on = doing[p].on)
LEMMA InitRotation == Init => RotationInv /\ ClaimsAlone
BY DEF Init, RotationInv, NumbersInOrder, OldDeprecated, RotationsBehind,
       Behind, ClaimsAlone, Numbers, NoVersions, Idle, Rotating

(* A step that makes, deprecates and deletes no version ...                  *)
SameNumbers ==
  /\ UNCHANGED <<row, deprecated>>
  /\ \A s \in Secret : Numbers(s)' = Numbers(s) /\ current'[s].value = current[s].value

(* ... and one that starts no rotation and takes none a step further.        *)
StaysOut == \A q \in Process : doing'[q].op \in Rotating => doing'[q] = doing[q]

(* What Behind says of a process, now and next, by the secret it rotates.    *)
LEMMA BehindNow ==
  ASSUME NEW q \in Process, NEW s \in Secret, RotationInv,
         doing[q].op \in Rotating, doing[q].on = s
  PROVE  /\ row[s] # "none"
         /\ row[s] = "stored" =>
              /\ doing[q].batch \subseteq Numbers(s)
              /\ doing[q].op = "numbered" => doing[q].number <= current[s].value + 1
BY DEF RotationInv, RotationsBehind, Behind

LEMMA BehindNext ==
  ASSUME NEW q \in Process, NEW s \in Secret, doing'[q].on = s, row'[s] # "none",
         row'[s] = "stored" =>
           /\ doing'[q].batch \subseteq Numbers(s)'
           /\ doing'[q].op = "numbered" => doing'[q].number <= current'[s].value + 1
  PROVE  Behind(q)'
BY DEF Behind, Numbers

LEMMA RotationKept ==
  ASSUME TypeOK, RotationInv, SameNumbers, StaysOut
  PROVE  RotationInv'
<1>1. NumbersInOrder' /\ OldDeprecated'
  BY DEF RotationInv, SameNumbers, NumbersInOrder, OldDeprecated
<1>2. ASSUME NEW p \in Process, doing'[p].op \in Rotating
      PROVE  Behind(p)'
  <2>1. doing'[p] = doing[p] /\ doing[p].op \in Rotating
    BY <1>2 DEF StaysOut
  <2>2. PICK s \in Secret : doing[p].on = s
    BY <2>1 DEF TypeOK, LocalOK, JobOK
  <2>3. /\ row[s] # "none"
        /\ row[s] = "stored" =>
             /\ doing[p].batch \subseteq Numbers(s)
             /\ doing[p].op = "numbered" => doing[p].number <= current[s].value + 1
    BY <2>1, <2>2, BehindNow
  <2>4. row' = row /\ Numbers(s)' = Numbers(s) /\ current'[s].value = current[s].value
    BY DEF SameNumbers
  <2>5. QED
    BY <2>1, <2>2, <2>3, <2>4, BehindNext
<1>3. ASSUME NEW p \in Process
      PROVE  Behind(p)'
  BY <1>2, <1>3 DEF Behind
<1>4. QED
  BY <1>1, <1>3 DEF RotationInv, RotationsBehind

LEMMA LeaveStaysOut ==
  ASSUME TypeOK, NEW p \in Process, Leave(p)
  PROVE  StaysOut
BY DEF Leave, StaysOut, Idle, Rotating, TypeOK, LocalOK

LEMMA CreateRotation ==
  ASSUME TypeOK, RotationInv, NEW p \in Process, NEW s \in Secret, CreateSecret(p, s)
  PROVE  RotationInv'
<1> USE DEF RotationInv
<1>1. 1 \in Number /\ 0 \notin Number
  BY Constants
<1>2. /\ row[s] = "none" /\ Numbers(s) = {} /\ deprecated[s] = {}
      /\ UNCHANGED <<deprecated, doing>>
  BY DEF CreateSecret, NumbersInOrder, OldDeprecated
<1>3. \A r \in Secret \ {s} :
        /\ row'[r] = row[r] /\ current'[r] = current[r] /\ Numbers(r)' = Numbers(r)
  BY DEF CreateSecret, Numbers, TypeOK, VaultOK
<1>4. row'[s] = "stored" /\ current'[s].value = 1
  BY DEF CreateSecret, TypeOK, VaultOK
<1>5. Numbers(s)' = {1}
  <2>1. wrap'[s] = [wrap[s] EXCEPT ![1] = [dek |-> 1, mek |-> mekNow[p]]]
    BY DEF CreateSecret, TypeOK, VaultOK
  <2>2. wrap'[s][1] = [dek |-> 1, mek |-> mekNow[p]]
    BY <1>1, <2>1 DEF TypeOK, VaultOK
  <2>3. \A n \in Number \ {1} : wrap'[s][n] = NoWrap
    BY <1>2, <2>1 DEF Numbers, TypeOK, VaultOK
  <2>4. wrap'[s][1] # NoWrap
    BY <2>2 DEF NoWrap
  <2>5. QED
    BY <1>1, <2>3, <2>4 DEF Numbers
<1>6. NumbersInOrder'
  <2>1. Numbers(s)' = 1..current'[s].value
    BY <1>4, <1>5
  <2>2. QED
    BY <1>1, <1>3, <1>4, <2>1 DEF NumbersInOrder
<1>7. OldDeprecated'
  BY <1>2, <1>3 DEF OldDeprecated
<1>8. RotationsBehind'
  <2>1. ASSUME NEW q \in Process, doing'[q].op \in Rotating
        PROVE  Behind(q)'
    <3>1. doing'[q] = doing[q] /\ doing[q].op \in Rotating
      BY <1>2, <2>1
    <3>2. PICK r \in Secret : doing[q].on = r
      BY <3>1 DEF TypeOK, LocalOK, JobOK
    <3>3. /\ row[r] # "none"
          /\ row[r] = "stored" =>
               /\ doing[q].batch \subseteq Numbers(r)
               /\ doing[q].op = "numbered" => doing[q].number <= current[r].value + 1
      BY <3>1, <3>2, BehindNow
    <3>4. row'[r] = row[r] /\ current'[r] = current[r] /\ Numbers(r)' = Numbers(r)
      BY <1>2, <1>3, <3>3
    <3>5. QED
      BY <3>1, <3>2, <3>3, <3>4, BehindNext
  <2>2. QED
    BY <2>1 DEF RotationsBehind, Behind
<1>9. QED
  BY <1>6, <1>7, <1>8

LEMMA DeleteRotation ==
  ASSUME TypeOK, RotationInv, NEW p \in Process, NEW s \in Secret, DeleteSecret(p, s)
  PROVE  RotationInv'
<1> USE DEF RotationInv
<1>1. \A r \in Secret \ {s} :
        /\ row'[r] = row[r] /\ current'[r] = current[r] /\ Numbers(r)' = Numbers(r)
        /\ deprecated'[r] = deprecated[r]
  BY DEF DeleteSecret, Numbers, TypeOK, VaultOK
<1>2. /\ row'[s] = "deleted" /\ wrap'[s] = NoVersions /\ deprecated'[s] = {}
      /\ UNCHANGED doing
  BY DEF DeleteSecret, TypeOK, VaultOK
<1>3. Numbers(s)' = {}
  BY <1>2 DEF Numbers, NoVersions
<1>4. NumbersInOrder'
  BY <1>1, <1>2, <1>3 DEF NumbersInOrder
<1>5. OldDeprecated'
  BY <1>1, <1>2 DEF OldDeprecated
<1>6. RotationsBehind'
  <2>1. ASSUME NEW q \in Process, doing'[q].op \in Rotating
        PROVE  Behind(q)'
    <3>1. doing'[q] = doing[q] /\ doing[q].op \in Rotating
      BY <1>2, <2>1
    <3>2. PICK r \in Secret : doing[q].on = r
      BY <3>1 DEF TypeOK, LocalOK, JobOK
    <3>3. /\ row[r] # "none"
          /\ row[r] = "stored" =>
               /\ doing[q].batch \subseteq Numbers(r)
               /\ doing[q].op = "numbered" => doing[q].number <= current[r].value + 1
      BY <3>1, <3>2, BehindNow
    <3>4. CASE r = s
      BY <1>2, <3>1, <3>2, <3>4, BehindNext
    <3>5. CASE r # s
      BY <1>1, <3>1, <3>2, <3>3, <3>5, BehindNext
    <3>6. QED
      BY <3>4, <3>5
  <2>2. QED
    BY <2>1 DEF RotationsBehind, Behind
<1>7. QED
  BY <1>4, <1>5, <1>6

(* The steps of a rotation before its last only move the rotation itself.    *)
LEMMA AdvanceRotation ==
  ASSUME TypeOK, RotationInv, NEW p \in Process, NEW j \in Job,
         doing' = [doing EXCEPT ![p] = j], UNCHANGED vaultVars,
         j.op \in Rotating, j.on \in Secret, row[j.on] # "none",
         row[j.on] = "stored" =>
           /\ j.batch \subseteq Numbers(j.on)
           /\ j.op = "numbered" => j.number <= current[j.on].value + 1
  PROVE  RotationInv'
<1>1. \A s \in Secret : Numbers(s)' = Numbers(s)
  BY DEF vaultVars, Numbers
<1>2. NumbersInOrder' /\ OldDeprecated'
  BY <1>1 DEF vaultVars, RotationInv, NumbersInOrder, OldDeprecated
<1>3. ASSUME NEW q \in Process, doing'[q].op \in Rotating
      PROVE  Behind(q)'
  <2>1. CASE q = p
    <3>1. doing'[q] = j
      BY <2>1 DEF TypeOK, LocalOK
    <3>2. PICK s \in Secret : j.on = s
      OBVIOUS
    <3>3. row' = row /\ current' = current /\ Numbers(s)' = Numbers(s)
      BY <1>1 DEF vaultVars
    <3>4. QED
      BY <3>1, <3>2, <3>3, BehindNext
  <2>2. CASE q # p
    <3>1. doing'[q] = doing[q] /\ doing[q].op \in Rotating
      BY <1>3, <2>2 DEF TypeOK, LocalOK
    <3>2. PICK s \in Secret : doing[q].on = s
      BY <3>1 DEF TypeOK, LocalOK, JobOK
    <3>3. /\ row[s] # "none"
          /\ row[s] = "stored" =>
               /\ doing[q].batch \subseteq Numbers(s)
               /\ doing[q].op = "numbered" => doing[q].number <= current[s].value + 1
      BY <3>1, <3>2, BehindNow
    <3>4. row' = row /\ current' = current /\ Numbers(s)' = Numbers(s)
      BY <1>1 DEF vaultVars
    <3>5. QED
      BY <3>1, <3>2, <3>3, <3>4, BehindNext
  <2>3. QED
    BY <2>1, <2>2
<1>4. ASSUME NEW q \in Process
      PROVE  Behind(q)'
  BY <1>3, <1>4 DEF Behind
<1>5. QED
  BY <1>2, <1>4 DEF RotationInv, RotationsBehind

LEMMA StepRotation ==
  ASSUME TypeOK, RotationInv, NEW p \in Process,
         (\E s \in Secret : BeginRotate(p, s)) \/ Deprecate(p) \/ PickNumber(p)
  PROVE  RotationInv'
<1>1. ASSUME NEW s \in Secret, BeginRotate(p, s)
      PROVE  RotationInv'
  <2> DEFINE j == [Idle EXCEPT !.op = "match", !.on = s, !.batch = Undeprecated(s)]
  <2>1. j \in Job /\ j.op = "match" /\ j.on = s /\ j.batch \subseteq Numbers(s)
    BY DEF Idle, Job, Rotating, Undeprecated, Numbers
  <2>2. doing' = [doing EXCEPT ![p] = j] /\ row[s] # "none" /\ UNCHANGED vaultVars
    BY <1>1 DEF BeginRotate
  <2> HIDE DEF j
  <2>3. QED
    BY <2>1, <2>2, AdvanceRotation DEF Rotating
<1>2. CASE Deprecate(p)
  <2> DEFINE s == doing[p].on
             j == [doing[p] EXCEPT !.op = "locked",
                     !.batch = doing[p].batch \cap Undeprecated(s)]
  <2>1. doing[p] \in Job /\ doing[p].op \in Rotating /\ s \in Secret
    BY <1>2 DEF Deprecate, Rotating, TypeOK, LocalOK, JobOK
  <2>2. /\ j \in Job /\ j.op = "locked" /\ j.on = s
        /\ j.batch \subseteq doing[p].batch
    BY <2>1 DEF Job, Rotating
  <2>3. row[s] # "none" /\ (row[s] = "stored" => doing[p].batch \subseteq Numbers(s))
    BY <2>1, BehindNow
  <2>4. doing' = [doing EXCEPT ![p] = j] /\ UNCHANGED vaultVars
    BY <1>2, <2>1 DEF Deprecate, TypeOK, LocalOK, Job
  <2> HIDE DEF j
  <2>5. QED
    BY <2>1, <2>2, <2>3, <2>4, AdvanceRotation DEF Rotating
<1>3. CASE PickNumber(p)
  <2> DEFINE s == doing[p].on
  <2>1. PICK n \in Number :
          /\ n = 1 \/ n - 1 \in Numbers(s)
          /\ doing' = [doing EXCEPT ![p].op = "numbered", ![p].number = n]
    BY <1>3 DEF PickNumber
  <2> DEFINE j == [doing[p] EXCEPT !.op = "numbered", !.number = n]
  <2>2. doing[p] \in Job /\ doing[p].op \in Rotating /\ s \in Secret /\ UNCHANGED vaultVars
    BY <1>3 DEF PickNumber, Rotating, TypeOK, LocalOK, JobOK
  <2>3. /\ j \in Job /\ j.op = "numbered" /\ j.on = s
        /\ j.batch = doing[p].batch /\ j.number = n
    BY <2>2 DEF Job, Rotating
  <2>4. row[s] # "none" /\ (row[s] = "stored" => doing[p].batch \subseteq Numbers(s))
    BY <2>2, BehindNow
  <2>5. row[s] = "stored" => n <= current[s].value + 1
    <3>1. n \in Nat /\ Number \subseteq Nat
      BY Constants
    <3>2. row[s] = "stored" =>
            current[s].value \in Number /\ Numbers(s) = 1..current[s].value
      BY <2>2 DEF RotationInv, NumbersInOrder
    <3>3. QED
      BY <2>1, <3>1, <3>2
  <2>6. doing' = [doing EXCEPT ![p] = j]
    BY <2>1, <2>2 DEF TypeOK, LocalOK, Job
  <2> HIDE DEF j
  <2>7. QED
    BY <2>2, <2>3, <2>4, <2>5, <2>6, AdvanceRotation DEF Rotating
<1>4. QED
  BY <1>1, <1>2, <1>3

(* The last step of a rotation: if its number is still free it is the next,  *)
(* and none of the versions it deprecates is the one it adds.                *)
LEMMA FinishRotation ==
  ASSUME TypeOK, RotationInv, NEW p \in Process, FinishRotate(p)
  PROVE  RotationInv'
<1>1. /\ doing[p].on \in Secret /\ doing[p].number \in Number
      /\ doing[p].op = "numbered" /\ Leave(p)
  BY DEF FinishRotate, Rotating, TypeOK, LocalOK, JobOK
<1>2. StaysOut
  BY <1>1, LeaveStaysOut
<1>3. CASE Refused(p)
  <2>1. SameNumbers
    BY <1>3 DEF FinishRotate, SameNumbers, vaultVars, Numbers
  <2>2. QED
    BY <1>2, <2>1, RotationKept
<1>4. CASE ~Refused(p)
  <2>1. PICK s \in Secret, n \in Number, v \in Number \cup {0} :
          s = doing[p].on /\ n = doing[p].number /\ v = current[s].value
    BY <1>1 DEF TypeOK, VaultOK, Content
  <2>2. row[s] = "stored" /\ n \notin Numbers(s)
    BY <1>4, <2>1 DEF Refused
  <2>3. v \in Number /\ Numbers(s) = 1..v
    BY <2>1, <2>2 DEF RotationInv, NumbersInOrder
  <2>4. n <= v + 1 /\ doing[p].batch \subseteq Numbers(s)
    BY <1>1, <2>1, <2>2, BehindNow DEF Rotating
  <2>5. n \in Nat /\ v \in Nat /\ n >= 1
    BY <2>3, SecretVaultAssumption DEF Number
  <2>6. n = v + 1
    BY <2>2, <2>3, <2>4, <2>5
  <2>7. /\ wrap' = [wrap EXCEPT ![s][n] = [dek |-> n, mek |-> mekNow[p]]]
        /\ deprecated' = [deprecated EXCEPT ![s] = DeprecatedBy(p)]
        /\ current' = [current EXCEPT ![s] = ContentOf(p)]
        /\ row' = row
    BY <1>4, <2>1 DEF FinishRotate
  <2>8. \A r \in Secret \ {s} :
          /\ current'[r] = current[r] /\ Numbers(r)' = Numbers(r)
          /\ deprecated'[r] = deprecated[r]
    BY <2>7 DEF Numbers, TypeOK, VaultOK
  <2>9. current'[s].value = n /\ deprecated'[s] = deprecated[s] \cup doing[p].batch
    BY <2>1, <2>7 DEF ContentOf, DeprecatedBy, TypeOK, VaultOK
  <2>10. Numbers(s)' = Numbers(s) \cup {n}
    <3>1. wrap'[s] = [wrap[s] EXCEPT ![n] = [dek |-> n, mek |-> mekNow[p]]]
      BY <2>7 DEF TypeOK, VaultOK
    <3>2. \A m \in Number \ {n} : wrap'[s][m] = wrap[s][m]
      BY <3>1 DEF TypeOK, VaultOK
    <3>3. wrap'[s][n] = [dek |-> n, mek |-> mekNow[p]]
      BY <3>1 DEF TypeOK, VaultOK
    <3>4. wrap'[s][n] # NoWrap
      BY <2>5, <3>3 DEF NoWrap
    <3>5. QED
      BY <3>2, <3>4 DEF Numbers
  <2>11. NumbersInOrder'
    <3>1. Numbers(s)' = 1..n
      BY <2>3, <2>5, <2>6, <2>10
    <3>2. QED
      BY <2>2, <2>7, <2>8, <2>9, <3>1 DEF RotationInv, NumbersInOrder
  <2>12. OldDeprecated'
    <3>1. deprecated[s] \subseteq Numbers(s)
      BY DEF RotationInv, OldDeprecated
    <3>2. deprecated'[s] \subseteq Numbers(s)' \ {n}
      BY <2>2, <2>4, <2>9, <2>10, <3>1
    <3>3. QED
      BY <2>8, <2>9, <3>2 DEF RotationInv, OldDeprecated
  <2>13. ASSUME NEW q \in Process, doing'[q].op \in Rotating
         PROVE  Behind(q)'
    <3>1. doing'[q] = doing[q] /\ doing[q].op \in Rotating
      BY <1>2, <2>13 DEF StaysOut
    <3>2. PICK r \in Secret : doing[q].on = r
      BY <3>1 DEF TypeOK, LocalOK, JobOK
    <3>3. /\ row[r] # "none"
          /\ row[r] = "stored" =>
               /\ doing[q].batch \subseteq Numbers(r)
               /\ doing[q].op = "numbered" => doing[q].number <= current[r].value + 1
      BY <3>1, <3>2, BehindNow
    <3>4. CASE r = s
      <4>1. doing[q].batch \subseteq Numbers(s)'
        BY <2>2, <2>10, <3>3, <3>4
      <4>2. doing[q].op = "numbered" => doing[q].number \in Nat
        BY Constants DEF TypeOK, LocalOK, JobOK
      <4>3. doing[q].op = "numbered" => doing[q].number <= n + 1
        BY <2>1, <2>2, <2>5, <2>6, <3>3, <3>4, <4>2
      <4>4. QED
        BY <2>2, <2>7, <2>9, <3>1, <3>2, <3>4, <4>1, <4>3, BehindNext
    <3>5. CASE r # s
      BY <2>7, <2>8, <3>1, <3>2, <3>3, <3>5, BehindNext
    <3>6. QED
      BY <3>4, <3>5
  <2>14. RotationsBehind'
    BY <2>13 DEF RotationsBehind, Behind
  <2>15. QED
    BY <2>11, <2>12, <2>14 DEF RotationInv
<1>5. QED
  BY <1>3, <1>4

(* rotate_mek rewrites what the versions are wrapped with, not which exist.  *)
LEMMA RewrapRotation ==
  ASSUME TypeOK, RotationInv, NEW p \in Process, FinishRewrap(p)
  PROVE  RotationInv'
<1>1. doing[p].mek \in Mek /\ Leave(p) /\ UNCHANGED <<row, deprecated>>
  BY DEF FinishRewrap, TypeOK, LocalOK, JobOK
<1>2. doing[p].mek # 0
  BY <1>1 DEF Mek
<1>3. ASSUME NEW s \in Secret
      PROVE  Numbers(s)' = Numbers(s) /\ current'[s].value = current[s].value
  <2>1. \A n \in Number : wrap'[s][n] =
          IF n \in Numbers(s) /\ seen[p].wrap[s][n] # NoWrap
          THEN [dek |-> RewrapOfRow(p, s, n).dek, mek |-> doing[p].mek] ELSE wrap[s][n]
    BY DEF FinishRewrap
  <2>2. ASSUME NEW n \in Number
        PROVE  (wrap'[s][n] # NoWrap) <=> (wrap[s][n] # NoWrap)
    <3>1. CASE n \in Numbers(s) /\ seen[p].wrap[s][n] # NoWrap
      <4>1. wrap'[s][n] = [dek |-> RewrapOfRow(p, s, n).dek, mek |-> doing[p].mek]
        BY <2>1, <3>1
      <4>2. wrap'[s][n].mek # NoWrap.mek
        BY <1>2, <4>1 DEF NoWrap
      <4>3. QED
        BY <3>1, <4>2 DEF Numbers
    <3>2. CASE ~(n \in Numbers(s) /\ seen[p].wrap[s][n] # NoWrap)
      BY <2>1, <3>2
    <3>3. QED
      BY <3>1, <3>2
  <2>3. current'[s].value = current[s].value
    BY DEF FinishRewrap, TypeOK, VaultOK, Content
  <2>4. QED
    BY <2>2, <2>3 DEF Numbers
<1>4. SameNumbers
  BY <1>1, <1>3 DEF SameNumbers
<1>5. QED
  BY <1>1, <1>4, LeaveStaysOut, RotationKept

(* Every other step leaves the secrets alone and rotates none.               *)
LEMMA NextRotation ==
  ASSUME TypeOK, RotationInv, [Next]_vars
  PROVE  RotationInv'
<1>1. ASSUME UNCHANGED vaultVars, StaysOut
      PROVE  RotationInv'
  <2>1. SameNumbers
    BY <1>1 DEF SameNumbers, vaultVars, Numbers
  <2>2. QED
    BY <1>1, <2>1, RotationKept
<1>2. ASSUME UNCHANGED <<vaultVars, doing>>
      PROVE  RotationInv'
  BY <1>1, <1>2 DEF StaysOut
<1>3. ASSUME NEW p \in Process, NEW j, j.op \notin Rotating, UNCHANGED vaultVars,
             doing' = [doing EXCEPT ![p] = j]
      PROVE  RotationInv'
  BY <1>1, <1>3 DEF StaysOut, TypeOK, LocalOK
<1>4. ASSUME NEW p \in Process, Keep(p)
      PROVE  RotationInv'
  BY <1>4, CreateRotation, DeleteRotation, StepRotation, FinishRotation DEF Keep
<1>5. ASSUME NEW p \in Process, Rewrap(p)
      PROVE  RotationInv'
  <2>1. ASSUME NEW k \in Mek, BeginRewrap(p, k)
        PROVE  RotationInv'
    <3> DEFINE j == [Idle EXCEPT !.op = "collect", !.mek = k]
    <3>1. j.op \notin Rotating /\ doing' = [doing EXCEPT ![p] = j] /\ UNCHANGED vaultVars
      BY <2>1 DEF BeginRewrap, Idle, Rotating
    <3> HIDE DEF j
    <3>2. QED
      BY <3>1, <1>3
  <2>2. CASE Collect(p)
    <3> DEFINE j == [doing[p] EXCEPT !.op = "rewrap"]
    <3>1. doing' = [doing EXCEPT ![p] = j] /\ UNCHANGED vaultVars
      BY <2>2 DEF Collect
    <3>2. j.op \notin Rotating
      BY DEF Rotating, TypeOK, LocalOK, Job
    <3> HIDE DEF j
    <3>3. QED
      BY <3>1, <3>2, <1>3
  <2>3. CASE RewrapRaises(p) \/ PersistFails(p)
    BY <2>3, <1>1, LeaveStaysOut DEF RewrapRaises, PersistFails
  <2>4. CASE FinishRewrap(p)
    BY <2>4, RewrapRotation
  <2>5. QED
    BY <1>5, <2>1, <2>2, <2>3, <2>4 DEF Rewrap
<1>6. ASSUME NEW p \in Process, View(p)
      PROVE  RotationInv'
  <2>1. ASSUME NEW t \in Token, CreateToken(p, t)
        PROVE  RotationInv'
    BY <2>1, <1>2 DEF CreateToken
  <2>2. ASSUME NEW t \in Token, BeginView(p, t)
        PROVE  RotationInv'
    <3> DEFINE j == [Idle EXCEPT !.op = "view", !.on = t, !.mek = sealMek[t]]
    <3>1. j.op \notin Rotating /\ doing' = [doing EXCEPT ![p] = j] /\ UNCHANGED vaultVars
      BY <2>2 DEF BeginView, Idle, Rotating
    <3> HIDE DEF j
    <3>2. QED
      BY <3>1, <1>3
  <2>3. CASE ClaimView(p)
    <3>1. CASE Unviewed(doing[p].on)
      <4> DEFINE j == [doing[p] EXCEPT !.op = "claimed"]
      <4>1. doing' = [doing EXCEPT ![p] = j] /\ UNCHANGED vaultVars
        BY <2>3, <3>1 DEF ClaimView
      <4>2. j.op \notin Rotating
        BY DEF Rotating, TypeOK, LocalOK, Job
      <4> HIDE DEF j
      <4>3. QED
        BY <4>1, <4>2, <1>3
    <3>2. CASE ~Unviewed(doing[p].on)
      BY <2>3, <3>2, <1>1, LeaveStaysOut DEF ClaimView
    <3>3. QED
      BY <3>1, <3>2
  <2>4. CASE AnswerView(p)
    BY <2>4, <1>1, LeaveStaysOut DEF AnswerView
  <2>5. QED
    BY <1>6, <2>1, <2>2, <2>3, <2>4 DEF View
<1>7. ASSUME NEW p \in Process, Restart(p) \/ StatementFails(p)
      PROVE  RotationInv'
  BY <1>7, <1>1, LeaveStaysOut DEF Restart, StatementFails
<1>8. CASE ConfigureMek \/ \E t \in Token : Expire(t)
  BY <1>8, <1>2 DEF ConfigureMek, Expire
<1>9. CASE UNCHANGED vars
  BY <1>9, <1>2 DEF vars
<1>10. QED
  BY <1>4, <1>5, <1>6, <1>7, <1>8, <1>9 DEF Next

(* CurrentIsLatest: however rotations of a secret by several processes       *)
(* overlap, its row holds the value of its latest version.                   *)
THEOREM CurrentStaysLatest == Spec => []CurrentIsLatest
<1>1. Init => TypeOK /\ RotationInv
  BY InitType, InitRotation
<1>2. TypeOK /\ RotationInv /\ [Next]_vars => (TypeOK /\ RotationInv)'
  BY NextType, NextRotation
<1>3. RotationInv => CurrentIsLatest
  <2> SUFFICES ASSUME RotationInv, NEW s \in Secret, row[s] = "stored"
               PROVE  /\ current[s].value \in Numbers(s)
                      /\ \A n \in Numbers(s) : n <= current[s].value
    BY DEF CurrentIsLatest
  <2>1. PICK v \in Number : v = current[s].value /\ Numbers(s) = 1..v
    BY DEF RotationInv, NumbersInOrder
  <2>2. v \in 1..v
    BY SecretVaultAssumption DEF Number
  <2>3. QED
    BY <2>1, <2>2
<1>4. QED
  BY <1>1, <1>2, <1>3, PTL DEF Spec

(* LatestIsInUse: no interleaving of rotations deprecates the version whose  *)
(* value the secret has.                                                     *)
THEOREM LatestStaysInUse == Spec => []LatestIsInUse
<1>1. Init => TypeOK /\ RotationInv
  BY InitType, InitRotation
<1>2. TypeOK /\ RotationInv /\ [Next]_vars => (TypeOK /\ RotationInv)'
  BY NextType, NextRotation
<1>3. RotationInv => LatestIsInUse
  BY DEF RotationInv, OldDeprecated, LatestIsInUse
<1>4. QED
  BY <1>1, <1>2, <1>3, PTL DEF Spec

(* ---- One-time secrets: SecretVault implements ShownOnce ---- *)

(* A step that leaves every seal and count alone and claims nothing.         *)
LEMMA ClaimsKept ==
  ASSUME TypeOK, ClaimsAlone, UNCHANGED <<seal, shown>>,
         \A q \in Process : doing'[q].op = "claimed" => doing'[q] = doing[q]
  PROVE  ClaimsAlone'
BY DEF ClaimsAlone

LEMMA LeaveClaims ==
  ASSUME TypeOK, NEW p \in Process, Leave(p)
  PROVE  /\ doing'[p].op # "claimed"
         /\ \A q \in Process \ {p} : doing'[q] = doing[q]
BY DEF Leave, Idle, TypeOK, LocalOK

LEMMA EnterClaims ==
  ASSUME TypeOK, NEW p \in Process, NEW j, doing' = [doing EXCEPT ![p] = j]
  PROVE  doing'[p] = j /\ \A q \in Process \ {p} : doing'[q] = doing[q]
BY DEF TypeOK, LocalOK

(* The steps that make, mark and send one are those of ShownOnce, ...        *)
LEMMA CreateOnce ==
  ASSUME TypeOK, ClaimsAlone, NEW p \in Process, NEW t \in Token, CreateToken(p, t)
  PROVE  ClaimsAlone' /\ Once!Seal(t)
<1>1. Once!Seal(t)
  BY DEF CreateToken, Once!Seal
<1>2. \A u \in Token : u # t => seal'[u] = seal[u]
  BY DEF CreateToken, TypeOK, OnceOK
<1>3. seal'[t] = "sealed" /\ seal[t] = "none" /\ UNCHANGED <<shown, doing>>
  BY DEF CreateToken, TypeOK, OnceOK
<1>4. \A q \in Process : doing[q].op = "claimed" => doing[q].on \in Token \ {t}
  BY <1>3 DEF ClaimsAlone, TypeOK, LocalOK, JobOK
<1>5. ClaimsAlone'
  BY <1>2, <1>3, <1>4 DEF ClaimsAlone
<1>6. QED
  BY <1>1, <1>5

LEMMA ClaimOnce ==
  ASSUME TypeOK, ClaimsAlone, NEW p \in Process, ClaimView(p)
  PROVE  ClaimsAlone' /\ (UNCHANGED <<seal, shown>> \/ Once!Open(doing[p].on))
<1>1. PICK t \in Token : t = doing[p].on
  BY DEF ClaimView, TypeOK, LocalOK, JobOK
<1>2. CASE Unviewed(t)
  <2>1. seal[t] = "sealed" /\ seal' = [seal EXCEPT ![t] = "opened"] /\ UNCHANGED shown
    BY <1>1, <1>2 DEF ClaimView, Unviewed
  <2> DEFINE j == [doing[p] EXCEPT !.op = "claimed"]
  <2>2. doing' = [doing EXCEPT ![p] = j]
    BY <1>1, <1>2 DEF ClaimView
  <2>3. j.op = "claimed" /\ j.on = t
    BY <1>1 DEF TypeOK, LocalOK, Job
  <2> HIDE DEF j
  <2>4. doing'[p] = j /\ \A q \in Process \ {p} : doing'[q] = doing[q]
    BY <2>2, EnterClaims
  <2>5. /\ seal'[t] = "opened" /\ shown[t] = 0
        /\ \A u \in Token : u # t => seal'[u] = seal[u]
    BY <2>1 DEF ClaimsAlone, TypeOK, OnceOK
  <2>6. \A q \in Process : doing[q].op = "claimed" => doing[q].on \in Token \ {t}
    BY <2>1 DEF ClaimsAlone, TypeOK, LocalOK, JobOK
  <2>7. ClaimsAlone'
    BY <2>1, <2>3, <2>4, <2>5, <2>6 DEF ClaimsAlone
  <2>8. QED
    BY <1>1, <2>1, <2>7 DEF Once!Open
<1>3. CASE ~Unviewed(t)
  <2>1. UNCHANGED <<seal, shown>> /\ Leave(p)
    BY <1>1, <1>3 DEF ClaimView
  <2>2. QED
    BY <2>1, LeaveClaims, ClaimsKept
<1>4. QED
  BY <1>2, <1>3

LEMMA AnswerOnce ==
  ASSUME TypeOK, ClaimsAlone, NEW p \in Process, AnswerView(p)
  PROVE  ClaimsAlone' /\ (UNCHANGED <<seal, shown>> \/ Once!Show(doing[p].on))
<1>1. PICK t \in Token : t = doing[p].on
  BY DEF AnswerView, TypeOK, LocalOK, JobOK
<1>2. UNCHANGED seal /\ Leave(p) /\ seal[t] = "opened" /\ shown[t] = 0
  BY <1>1 DEF AnswerView, ClaimsAlone
<1>3. doing'[p].op # "claimed" /\ \A q \in Process \ {p} : doing'[q] = doing[q]
  BY <1>2, LeaveClaims
<1>4. CASE doing[p].mek <= loaded[p]
  <2>1. shown' = [shown EXCEPT ![t] = @ + 1]
    BY <1>1, <1>4 DEF AnswerView
  <2>2. shown' = [shown EXCEPT ![t] = 1]
    BY <1>2, <2>1
  <2>3. \A u \in Token : u # t => shown'[u] = shown[u]
    BY <2>2 DEF TypeOK, OnceOK
  <2>4. \A q \in Process \ {p} : doing[q].op = "claimed" => doing[q].on \in Token \ {t}
    BY <1>1 DEF AnswerView, ClaimsAlone, TypeOK, LocalOK, JobOK
  <2>5. ClaimsAlone'
    BY <1>2, <1>3, <2>3, <2>4 DEF ClaimsAlone
  <2>6. QED
    BY <1>1, <1>2, <2>2, <2>5 DEF Once!Show
<1>5. CASE ~(doing[p].mek <= loaded[p])
  <2>1. UNCHANGED <<seal, shown>>
    BY <1>1, <1>2, <1>5 DEF AnswerView
  <2>2. QED
    BY <1>3, <2>1, ClaimsKept
<1>6. QED
  BY <1>4, <1>5

(* ... and every other step is none of its own.                              *)
LEMMA NextOnce ==
  ASSUME TypeOK, ClaimsAlone, [Next]_vars
  PROVE  ClaimsAlone' /\ [Once!Next]_<<seal, shown>>
<1> DEFINE Done == ClaimsAlone' /\ [Once!Next]_<<seal, shown>>
<1>1. ASSUME UNCHANGED <<seal, shown>>, UNCHANGED doing
      PROVE  Done
  BY <1>1, ClaimsKept
<1>2. ASSUME NEW p \in Process, UNCHANGED <<seal, shown>>, Leave(p)
      PROVE  Done
  BY <1>2, LeaveClaims, ClaimsKept
<1>3. ASSUME NEW p \in Process, NEW j, j.op # "claimed", UNCHANGED <<seal, shown>>,
             doing' = [doing EXCEPT ![p] = j]
      PROVE  Done
  BY <1>3, EnterClaims, ClaimsKept
<1> HIDE DEF Done
<1>4. ASSUME NEW p \in Process, Keep(p)
      PROVE  Done
  <2>1. ASSUME NEW s \in Secret, CreateSecret(p, s) \/ DeleteSecret(p, s)
        PROVE  Done
    BY <2>1, <1>1 DEF CreateSecret, DeleteSecret, onceVars
  <2>2. ASSUME NEW s \in Secret, BeginRotate(p, s)
        PROVE  Done
    <3> DEFINE j == [Idle EXCEPT !.op = "match", !.on = s, !.batch = Undeprecated(s)]
    <3>1. j.op # "claimed" /\ doing' = [doing EXCEPT ![p] = j] /\ UNCHANGED <<seal, shown>>
      BY <2>2 DEF BeginRotate, Idle, onceVars
    <3> HIDE DEF j
    <3>2. QED
      BY <3>1, <1>3
  <2>3. CASE Deprecate(p)
    <3> DEFINE j == [doing[p] EXCEPT !.op = "locked",
                       !.batch = doing[p].batch \cap Undeprecated(doing[p].on)]
    <3>1. doing' = [doing EXCEPT ![p] = j] /\ UNCHANGED <<seal, shown>>
      BY <2>3 DEF Deprecate, onceVars, TypeOK, LocalOK, Job
    <3>2. j.op # "claimed"
      BY DEF TypeOK, LocalOK, Job
    <3> HIDE DEF j
    <3>3. QED
      BY <3>1, <3>2, <1>3
  <2>4. CASE PickNumber(p)
    <3>1. PICK n \in Number :
            doing' = [doing EXCEPT ![p].op = "numbered", ![p].number = n]
      BY <2>4 DEF PickNumber
    <3> DEFINE j == [doing[p] EXCEPT !.op = "numbered", !.number = n]
    <3>2. doing' = [doing EXCEPT ![p] = j] /\ UNCHANGED <<seal, shown>>
      BY <2>4, <3>1 DEF PickNumber, onceVars, TypeOK, LocalOK, Job
    <3>3. j.op # "claimed"
      BY DEF TypeOK, LocalOK, Job
    <3> HIDE DEF j
    <3>4. QED
      BY <3>2, <3>3, <1>3
  <2>5. CASE FinishRotate(p)
    BY <2>5, <1>2 DEF FinishRotate, onceVars
  <2>6. QED
    BY <1>4, <2>1, <2>2, <2>3, <2>4, <2>5 DEF Keep
<1>5. ASSUME NEW p \in Process, Rewrap(p)
      PROVE  Done
  <2>1. ASSUME NEW k \in Mek, BeginRewrap(p, k)
        PROVE  Done
    <3> DEFINE j == [Idle EXCEPT !.op = "collect", !.mek = k]
    <3>1. j.op # "claimed" /\ doing' = [doing EXCEPT ![p] = j] /\ UNCHANGED <<seal, shown>>
      BY <2>1 DEF BeginRewrap, Idle, onceVars
    <3> HIDE DEF j
    <3>2. QED
      BY <3>1, <1>3
  <2>2. CASE Collect(p)
    <3> DEFINE j == [doing[p] EXCEPT !.op = "rewrap"]
    <3>1. doing' = [doing EXCEPT ![p] = j] /\ UNCHANGED <<seal, shown>>
      BY <2>2 DEF Collect, onceVars
    <3>2. j.op # "claimed"
      BY DEF TypeOK, LocalOK, Job
    <3> HIDE DEF j
    <3>3. QED
      BY <3>1, <3>2, <1>3
  <2>3. ASSUME RewrapRaises(p) \/ FinishRewrap(p) \/ PersistFails(p)
        PROVE  Done
    BY <2>3, <1>2 DEF RewrapRaises, FinishRewrap, PersistFails, onceVars
  <2>4. QED
    BY <1>5, <2>1, <2>2, <2>3 DEF Rewrap
<1>6. ASSUME NEW p \in Process, View(p)
      PROVE  Done
  <2>1. ASSUME NEW t \in Token, CreateToken(p, t)
        PROVE  Done
    BY <2>1, CreateOnce DEF Done, Once!Next
  <2>2. ASSUME NEW t \in Token, BeginView(p, t)
        PROVE  Done
    <3> DEFINE j == [Idle EXCEPT !.op = "view", !.on = t, !.mek = sealMek[t]]
    <3>1. j.op # "claimed" /\ doing' = [doing EXCEPT ![p] = j] /\ UNCHANGED <<seal, shown>>
      BY <2>2 DEF BeginView, Idle, onceVars
    <3> HIDE DEF j
    <3>2. QED
      BY <3>1, <1>3
  <2>3. CASE ClaimView(p)
    <3>1. doing[p].on \in Token
      BY <2>3 DEF ClaimView, TypeOK, LocalOK, JobOK
    <3>2. QED
      BY <2>3, <3>1, ClaimOnce DEF Done, Once!Next
  <2>4. CASE AnswerView(p)
    <3>1. doing[p].on \in Token
      BY <2>4 DEF AnswerView, TypeOK, LocalOK, JobOK
    <3>2. QED
      BY <2>4, <3>1, AnswerOnce DEF Done, Once!Next
  <2>5. QED
    BY <1>6, <2>1, <2>2, <2>3, <2>4 DEF View
<1>7. ASSUME NEW p \in Process, Restart(p) \/ StatementFails(p)
      PROVE  Done
  BY <1>7, <1>2 DEF Restart, StatementFails, onceVars
<1>8. ASSUME ConfigureMek \/ \E t \in Token : Expire(t)
      PROVE  Done
  BY <1>8, <1>1 DEF ConfigureMek, Expire, onceVars
<1>9. ASSUME UNCHANGED vars
      PROVE  Done
  BY <1>9, <1>1 DEF vars, onceVars
<1>10. QED
  BY <1>4, <1>5, <1>6, <1>7, <1>8, <1>9 DEF Next, Done

(* OnceSpec: however many processes try to view a one-time secret, and       *)
(* wherever they are restarted, what clients see of it is ShownOnce: every   *)
(* step is a step of it or leaves its state alone.                           *)
THEOREM OnceRefined == Spec => OnceSpec
<1>1. Init => TypeOK /\ ClaimsAlone /\ Once!Init
  BY InitType, InitRotation DEF Init, Once!Init
<1>2. TypeOK /\ ClaimsAlone /\ [Next]_vars
        => (TypeOK /\ ClaimsAlone)' /\ [Once!Next]_<<seal, shown>>
  BY NextType, NextOnce
<1>3. QED
  BY <1>1, <1>2, PTL DEF Spec, OnceSpec, Once!Spec
-----------------------------------------------------------------------------
(* ---- What remains of "all secrets keep their DEK" ---- *)

(* The DEK of the value a secret has is in the row of its latest version, in *)
(* use, and wrapped with a master key that is configured.                    *)
ValueIsRecoverable ==
  \A s \in Secret : row[s] = "stored" =>
    /\ current[s].value \in Undeprecated(s)
    /\ wrap[s][current[s].value].dek = current[s].value
    /\ wrap[s][current[s].value].mek \in 1..env

(* Where a MEK rotation has written an older DEK back beside a newer value   *)
(* (SecretKeepsItsDek), the value is not lost: its version still has its DEK.*)
THEOREM ValuesStayRecoverable == Spec => []ValueIsRecoverable
<1>1. CurrentIsLatest /\ LatestIsInUse /\ HistoryIsReadable => ValueIsRecoverable
  BY DEF CurrentIsLatest, LatestIsInUse, HistoryIsReadable, ValueIsRecoverable, Undeprecated
<1>2. QED
  BY <1>1, CurrentStaysLatest, LatestStaysInUse, HistoryStaysReadable, PTL

Rewrapping(p) == doing[p].op \in {"collect", "rewrap"}

(* No rotation of a secret is stored while a MEK rotation is under way.      *)
RotationsApart ==
  [][\A p \in Process : FinishRotate(p) => \A q \in Process : ~Rewrapping(q)]_vars

(* What a MEK rotation has read of a secret is still the DEK of its value.   *)
ReadIsCurrent ==
  \A p \in Process, s \in Secret : seen[p].current[s] # NoWrap =>
    /\ Rewrapping(p)
    /\ row[s] # "none"
    /\ row[s] = "stored" => seen[p].current[s].dek = current[s].value

DekInv == SecretKeepsItsDek /\ ReadIsCurrent

(* Steps that leave the rows alone: each process keeps what it has read and  *)
(* goes on with its MEK rotation, or forgets it.                             *)
Forgets(p) == \A s \in Secret : seen'[p].current[s] = NoWrap
Remembers(p) == seen'[p].current = seen[p].current /\ (Rewrapping(p) => Rewrapping(p)')

LEMMA ReadKept ==
  ASSUME DekInv, UNCHANGED <<row, current>>,
         \A p \in Process : Forgets(p) \/ Remembers(p)
  PROVE  DekInv'
<1>1. SecretKeepsItsDek'
  BY DEF DekInv, SecretKeepsItsDek
<1>2. ASSUME NEW p \in Process, NEW s \in Secret, seen'[p].current[s] # NoWrap
      PROVE  /\ Rewrapping(p)'
             /\ row'[s] # "none"
             /\ row'[s] = "stored" => seen'[p].current[s].dek = current'[s].value
  <2>1. Remembers(p)
    BY <1>2 DEF Forgets
  <2>2. seen[p].current[s] # NoWrap
    BY <1>2, <2>1 DEF Remembers
  <2>3. QED
    BY <2>1, <2>2 DEF DekInv, ReadIsCurrent, Remembers
<1>3. QED
  BY <1>1, <1>2 DEF DekInv, ReadIsCurrent

LEMMA LeaveForgets ==
  ASSUME TypeOK, NEW p \in Process, Leave(p)
  PROVE  \A q \in Process : Forgets(q) \/ Remembers(q)
<1>1. Forgets(p)
  BY DEF Leave, Forgets, NoCopies, TypeOK, LocalOK
<1>2. ASSUME NEW q \in Process, q # p
      PROVE  Remembers(q)
  BY <1>2 DEF Leave, Remembers, Rewrapping, TypeOK, LocalOK
<1>3. QED
  BY <1>1, <1>2

(* A process that is in no MEK rotation goes on, or starts, with something.  *)
LEMMA GoOnRemembers ==
  ASSUME TypeOK, NEW p \in Process, ~Rewrapping(p), UNCHANGED seen,
         \A q \in Process \ {p} : doing'[q] = doing[q]
  PROVE  \A q \in Process : Forgets(q) \/ Remembers(q)
BY DEF Remembers, Rewrapping

LEMMA KeepDek ==
  ASSUME TypeOK, DekInv, NEW p \in Process, Keep(p),
         FinishRotate(p) => \A q \in Process : ~Rewrapping(q)
  PROVE  DekInv'
<1>1. ASSUME NEW s \in Secret, CreateSecret(p, s)
      PROVE  DekInv'
  <2>1. /\ row[s] = "none" /\ UNCHANGED <<doing, seen>>
        /\ row' = [row EXCEPT ![s] = "stored"]
        /\ current'[s].value = 1 /\ current'[s].dek = 1
        /\ \A x \in Secret \ {s} : current'[x] = current[x]
    BY <1>1 DEF CreateSecret, TypeOK, VaultOK
  <2>2. SecretKeepsItsDek'
    BY <2>1 DEF DekInv, SecretKeepsItsDek, TypeOK, VaultOK
  <2>3. ReadIsCurrent'
    BY <2>1 DEF DekInv, ReadIsCurrent, Rewrapping, TypeOK, VaultOK
  <2>4. QED
    BY <2>2, <2>3 DEF DekInv
<1>2. ASSUME NEW s \in Secret, DeleteSecret(p, s)
      PROVE  DekInv'
  <2>1. /\ UNCHANGED <<doing, seen>>
        /\ row' = [row EXCEPT ![s] = "deleted"]
        /\ \A x \in Secret \ {s} : current'[x] = current[x]
    BY <1>2 DEF DeleteSecret, TypeOK, VaultOK
  <2>2. SecretKeepsItsDek'
    BY <2>1 DEF DekInv, SecretKeepsItsDek, TypeOK, VaultOK
  <2>3. ReadIsCurrent'
    BY <2>1 DEF DekInv, ReadIsCurrent, Rewrapping, TypeOK, VaultOK
  <2>4. QED
    BY <2>2, <2>3 DEF DekInv
<1>3. CASE \/ \E s \in Secret : BeginRotate(p, s)
           \/ Deprecate(p) \/ PickNumber(p)
  <2>1. UNCHANGED <<row, current, seen>>
    BY <1>3 DEF BeginRotate, Deprecate, PickNumber, vaultVars
  <2>2. \A q \in Process \ {p} : doing'[q] = doing[q]
    <3>1. ASSUME NEW t \in Secret, BeginRotate(p, t)
          PROVE  \A q \in Process \ {p} : doing'[q] = doing[q]
      BY <3>1 DEF BeginRotate, TypeOK, LocalOK
    <3>2. CASE Deprecate(p)
      BY <3>2 DEF Deprecate, TypeOK, LocalOK
    <3>3. CASE PickNumber(p)
      BY <3>3 DEF PickNumber, TypeOK, LocalOK
    <3>4. QED
      BY <1>3, <3>1, <3>2, <3>3
  <2>3. ~Rewrapping(p)
    <3>1. \/ doing[p] = Idle \/ doing[p].op = "match" \/ doing[p].op = "locked"
      BY <1>3 DEF BeginRotate, Deprecate, PickNumber, Free
    <3>2. Idle.op = "idle"
      BY DEF Idle
    <3>3. QED
      BY <3>1, <3>2 DEF Rewrapping
  <2>4. QED
    BY <2>1, <2>2, <2>3, GoOnRemembers, ReadKept
<1>4. CASE FinishRotate(p)
  <2>1. \A q \in Process, s \in Secret : seen[q].current[s] = NoWrap
    BY <1>4 DEF DekInv, ReadIsCurrent
  <2>2. Leave(p)
    BY <1>4 DEF FinishRotate
  <2>3. \A q \in Process, s \in Secret : seen'[q].current[s] = NoWrap
    BY <2>1, <2>2 DEF Leave, NoCopies, TypeOK, LocalOK
  <2>4. ReadIsCurrent'
    BY <2>3 DEF ReadIsCurrent
  <2>5. SecretKeepsItsDek'
    <3>1. CASE Refused(p)
      BY <1>4, <3>1 DEF FinishRotate, vaultVars, DekInv, SecretKeepsItsDek
    <3>2. CASE ~Refused(p)
      <4>1. row' = row /\ current' = [current EXCEPT ![doing[p].on] = ContentOf(p)]
        BY <1>4, <3>2 DEF FinishRotate
      <4>2. ContentOf(p).dek = ContentOf(p).value
        BY DEF ContentOf
      <4>3. QED
        BY <4>1, <4>2 DEF DekInv, SecretKeepsItsDek, TypeOK, VaultOK
    <3>3. QED
      BY <3>1, <3>2
  <2>6. QED
    BY <2>4, <2>5 DEF DekInv
<1>5. QED
  BY <1>1, <1>2, <1>3, <1>4 DEF Keep

LEMMA RewrapDek ==
  ASSUME TypeOK, DekInv, NEW p \in Process, Rewrap(p)
  PROVE  DekInv'
<1>1. ASSUME NEW k \in Mek, BeginRewrap(p, k)
      PROVE  DekInv'
  <2> DEFINE c == [s \in Secret |->
               IF row[s] = "stored" /\ current[s].mek # k
               THEN [dek |-> current[s].dek, mek |-> current[s].mek] ELSE NoWrap]
  <2>1. /\ UNCHANGED <<row, current>>
        /\ doing' = [doing EXCEPT ![p] = [Idle EXCEPT !.op = "collect", !.mek = k]]
        /\ seen' = [seen EXCEPT ![p].current = c]
    BY <1>1 DEF BeginRewrap, vaultVars
  <2>2. /\ Rewrapping(p)' /\ seen'[p].current = c
        /\ \A q \in Process \ {p} : Remembers(q)
    BY <2>1 DEF Rewrapping, Remembers, Idle, TypeOK, LocalOK, Copies
  <2>3. ASSUME NEW s \in Secret, c[s] # NoWrap
        PROVE  row[s] = "stored" /\ c[s].dek = current[s].value
    BY <2>3 DEF DekInv, SecretKeepsItsDek
  <2> HIDE DEF c
  <2>4. ReadIsCurrent'
    <3> SUFFICES ASSUME NEW q \in Process, NEW s \in Secret, seen'[q].current[s] # NoWrap
                 PROVE  /\ Rewrapping(q)'
                        /\ row'[s] # "none"
                        /\ row'[s] = "stored" => seen'[q].current[s].dek = current'[s].value
      BY DEF ReadIsCurrent
    <3>1. CASE q = p
      BY <2>1, <2>2, <2>3, <3>1
    <3>2. CASE q # p
      BY <2>1, <2>2, <3>2 DEF Remembers, DekInv, ReadIsCurrent
    <3>3. QED
      BY <3>1, <3>2
  <2>5. SecretKeepsItsDek'
    BY <2>1 DEF DekInv, SecretKeepsItsDek
  <2>6. QED
    BY <2>4, <2>5 DEF DekInv
<1>2. CASE Collect(p)
  <2>1. UNCHANGED <<row, current>> /\ doing[p].op = "collect"
    BY <1>2 DEF Collect, vaultVars
  <2>2. \A q \in Process : seen'[q].current = seen[q].current
    <3>1. seen \in [Process -> Copies]
      BY DEF TypeOK, LocalOK
    <3>2. \A q \in Process \ {p} : seen'[q] = seen[q]
      BY <1>2, <3>1 DEF Collect
    <3>3. \E W, T, K : seen'[p] = [seen[p] EXCEPT !.wrap = W, !.once = T, !.mek = K]
      BY <1>2, <3>1 DEF Collect
    <3>4. seen'[p].current = seen[p].current
      BY <3>1, <3>3 DEF Copies
    <3>5. QED
      BY <3>2, <3>4
  <2>3. doing'[p].op = "rewrap" /\ \A q \in Process \ {p} : doing'[q] = doing[q]
    <3>1. doing' = [doing EXCEPT ![p] = [doing[p] EXCEPT !.op = "rewrap"]]
      BY <1>2 DEF Collect
    <3>2. doing \in [Process -> Job]
      BY DEF TypeOK, LocalOK
    <3>3. [doing[p] EXCEPT !.op = "rewrap"].op = "rewrap"
      BY <3>2 DEF Job
    <3>4. QED
      BY <3>1, <3>2, <3>3
  <2>4. \A q \in Process : Remembers(q)
    BY <2>2, <2>3 DEF Remembers, Rewrapping
  <2>5. QED
    BY <2>1, <2>4, ReadKept
<1>3. CASE RewrapRaises(p) \/ PersistFails(p)
  <2>1. Leave(p) /\ UNCHANGED <<row, current>>
    BY <1>3 DEF RewrapRaises, PersistFails, vaultVars
  <2>2. QED
    BY <2>1, LeaveForgets, ReadKept
<1>4. CASE FinishRewrap(p)
  <2>1. Leave(p) /\ row' = row
    BY <1>4 DEF FinishRewrap
  <2>2. ASSUME NEW s \in Secret
        PROVE  /\ current'[s].value = current[s].value
               /\ row[s] = "stored" => current'[s].dek = current'[s].value
    <3>1. CASE row[s] = "stored" /\ seen[p].current[s] # NoWrap
      <4>1. current'[s] = [current[s] EXCEPT !.dek = seen[p].current[s].dek, !.mek = doing[p].mek]
        BY <1>4, <3>1 DEF FinishRewrap
      <4>2. seen[p].current[s].dek = current[s].value
        BY <3>1 DEF DekInv, ReadIsCurrent
      <4>3. QED
        BY <4>1, <4>2 DEF TypeOK, VaultOK, Content
    <3>2. CASE ~(row[s] = "stored" /\ seen[p].current[s] # NoWrap)
      <4>1. current'[s] = current[s]
        BY <1>4, <3>2 DEF FinishRewrap
      <4>2. QED
        BY <4>1 DEF DekInv, SecretKeepsItsDek
    <3>3. QED
      BY <3>1, <3>2
  <2>3. ReadIsCurrent'
    <3>1. \A q \in Process : Forgets(q) \/ Remembers(q)
      BY <2>1, LeaveForgets
    <3> SUFFICES ASSUME NEW q \in Process, NEW s \in Secret, seen'[q].current[s] # NoWrap
                 PROVE  /\ Rewrapping(q)'
                        /\ row'[s] # "none"
                        /\ row'[s] = "stored" => seen'[q].current[s].dek = current'[s].value
      BY DEF ReadIsCurrent
    <3>2. Remembers(q) /\ seen[q].current[s] # NoWrap
      BY <3>1 DEF Forgets, Remembers
    <3>3. QED
      BY <2>1, <2>2, <3>2 DEF Remembers, DekInv, ReadIsCurrent
  <2>4. SecretKeepsItsDek'
    BY <2>1, <2>2 DEF SecretKeepsItsDek
  <2>5. QED
    BY <2>3, <2>4 DEF DekInv
<1>5. QED
  BY <1>1, <1>2, <1>3, <1>4 DEF Rewrap

LEMMA NextDek ==
  TypeOK /\ DekInv /\ [Next]_vars
    /\ [\A p \in Process : FinishRotate(p) => \A q \in Process : ~Rewrapping(q)]_vars
    => DekInv'
<1> SUFFICES ASSUME TypeOK, DekInv, [Next]_vars,
                    [\A p \in Process : FinishRotate(p) => \A q \in Process : ~Rewrapping(q)]_vars
             PROVE  DekInv'
  OBVIOUS
<1>1. CASE UNCHANGED <<row, current, doing, seen>>
  <2>1. \A q \in Process : Remembers(q)
    BY <1>1 DEF Remembers, Rewrapping
  <2>2. QED
    BY <1>1, <2>1, ReadKept
<1>2. CASE UNCHANGED vars
  BY <1>1, <1>2 DEF vars, vaultVars
<1>3. ASSUME NEW p \in Process, Keep(p), ~UNCHANGED vars
      PROVE  DekInv'
  BY <1>3, KeepDek
<1>4. ASSUME NEW p \in Process, Rewrap(p)
      PROVE  DekInv'
  BY <1>4, RewrapDek
<1>5. ASSUME NEW p \in Process, View(p) \/ Restart(p) \/ StatementFails(p)
      PROVE  DekInv'
  <2>1. UNCHANGED <<row, current>>
    BY <1>5 DEF View, CreateToken, BeginView, ClaimView, AnswerView, Restart,
                StatementFails, vaultVars
  <2>2. \A q \in Process : Forgets(q) \/ Remembers(q)
    <3>1. ASSUME NEW t \in Token, CreateToken(p, t)
          PROVE  \A q \in Process : Forgets(q) \/ Remembers(q)
      BY <3>1 DEF CreateToken, Remembers, Rewrapping
    <3>2. ASSUME NEW t \in Token, BeginView(p, t)
          PROVE  \A q \in Process : Forgets(q) \/ Remembers(q)
      <4>1. ~Rewrapping(p) /\ UNCHANGED seen
        BY <3>2 DEF BeginView, Free, Idle, Rewrapping
      <4>2. \A q \in Process \ {p} : doing'[q] = doing[q]
        BY <3>2 DEF BeginView, TypeOK, LocalOK
      <4>3. QED
        BY <4>1, <4>2, GoOnRemembers
    <3>3. CASE ClaimView(p)
      <4>1. CASE Unviewed(doing[p].on)
        <5>1. ~Rewrapping(p) /\ UNCHANGED seen
          BY <3>3, <4>1 DEF ClaimView, Rewrapping
        <5>2. \A q \in Process \ {p} : doing'[q] = doing[q]
          BY <3>3, <4>1 DEF ClaimView, TypeOK, LocalOK
        <5>3. QED
          BY <5>1, <5>2, GoOnRemembers
      <4>2. CASE ~Unviewed(doing[p].on)
        BY <3>3, <4>2, LeaveForgets DEF ClaimView
      <4>3. QED
        BY <4>1, <4>2
    <3>4. CASE AnswerView(p) \/ Restart(p) \/ StatementFails(p)
      BY <3>4, LeaveForgets DEF AnswerView, Restart, StatementFails
    <3>5. QED
      BY <1>5, <3>1, <3>2, <3>3, <3>4 DEF View
  <2>3. QED
    BY <2>1, <2>2, ReadKept
<1>6. CASE ConfigureMek \/ \E t \in Token : Expire(t)
  BY <1>1, <1>6 DEF ConfigureMek, Expire, vaultVars
<1>7. QED
  BY <1>2, <1>3, <1>4, <1>5, <1>6 DEF Next

(* As long as no rotation of a secret is stored while rotate_mek is under    *)
(* way, what the documentation says is true: a secret keeps its DEK, however *)
(* MEK rotations overlap with each other, with deletions and with failures.  *)
THEOREM DekKeptApart == Spec /\ RotationsApart => []SecretKeepsItsDek
<1>1. Init => TypeOK /\ DekInv
  BY InitType DEF Init, DekInv, SecretKeepsItsDek, ReadIsCurrent, NoCopies
<1>2. TypeOK /\ DekInv /\ [Next]_vars
        /\ [\A p \in Process : FinishRotate(p) => \A q \in Process : ~Rewrapping(q)]_vars
        => (TypeOK /\ DekInv)'
  BY NextType, NextDek
<1>3. DekInv => SecretKeepsItsDek
  BY DEF DekInv
<1>4. QED
  BY <1>1, <1>2, <1>3, PTL DEF Spec, RotationsApart
=============================================================================
