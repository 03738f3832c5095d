-------------------------- MODULE V1Controller_proofs --------------------------
(***************************************************************************)
(* Proofs about V1Controller, for any PCs, labels, requests and faults.    *)
(***************************************************************************)
EXTENDS V1Controller, SequenceTheorems, TLAPS

LEMMA AreaOf ==
  /\ conn.route = "/setwifi" => area = "wifi"
  /\ conn.route = "/setauth" => area = "auth"
  /\ conn.route = "/setlabel" => area = "labels"
  BY DEF area

LEMMA AreaIs == area \in Area
  BY DEF area, Area

LEMMA RequestTyped ==
  ASSUME NEW r \in Request
  PROVE  /\ r.pc \in PC /\ r.line \in Line /\ <<r.pc, r.line>> \in Switch
         /\ r.first \in Text /\ r.second \in Text
         /\ r # NoConn
  BY RequestAssumption, V1Assumption DEF RequestAssumption, V1Assumption, Switch

\* Where a switch is, and that no other is there.
LEMMA WiringTyped ==
  /\ \A s \in Switch : Wiring[s] = <<Wiring[s][1], Wiring[s][2]>>
                      /\ Wiring[s][1] \in Bank /\ Wiring[s][2] \in Bit
  /\ \A s, t \in Switch : Wiring[s][1] = Wiring[t][1] /\ Wiring[s][2] = Wiring[t][2] => s = t
  BY V1Assumption DEF V1Assumption

LEMMA EmptyText == Empty \in Text /\ Len(Empty) = 0
  BY DEF Empty, Text

\* A part of a field is a text.
LEMMA PartTyped ==
  ASSUME NEW t \in Text, NEW n \in 0 .. Len(t)
  PROVE  SubSeq(t, 1, n) \in Text
  BY SubSeqProperties DEF Text

\* The blobs of a name space.
KeysOf(a) == CASE a = "wifi" -> {"ssid", "psk"}
               [] a = "auth" -> {"user", "pass"}
               [] OTHER      -> PC

LEMMA KeysOfBlobs ==
  ASSUME NEW n \in Nvs, NEW a \in Area
  PROVE  n[a] \in [KeysOf(a) -> Blob] /\ DOMAIN n[a] = KeysOf(a)
  BY DEF Nvs, Area, KeysOf

LEMMA BlobSet ==
  ASSUME NEW n \in Nvs, NEW a \in Area, NEW k \in KeysOf(a), NEW t \in Text
  PROVE  [n EXCEPT ![a] = [@ EXCEPT ![k] = t]] \in Nvs
  <1>1. CASE a = "wifi"
    BY <1>1 DEF Nvs, KeysOf, Blob
  <1>2. CASE a = "auth"
    BY <1>2 DEF Nvs, KeysOf, Blob
  <1>3. CASE a = "labels"
    BY <1>3 DEF Nvs, KeysOf, Blob
  <1> QED
    BY <1>1, <1>2, <1>3 DEF Area

LEMMA AreaCommitted ==
  ASSUME NEW n \in Nvs, NEW m \in Nvs, NEW a \in Area
  PROVE  [m EXCEPT ![a] = n[a]] \in Nvs
  BY DEF Nvs, Area

\* Whatever a reset leaves is a value of the name spaces, and what was
\* committed as it was is left as it was.
LEMMA ResetLeaves ==
  ASSUME nvs \in Nvs, committed \in Nvs, Reset
  PROVE  /\ nvs' \in Nvs /\ committed' = nvs'
         /\ \A a \in Area : nvs[a] = committed[a] => nvs'[a] = nvs[a]
  <1>1. PICK w \in Mixtures("wifi"), a \in Mixtures("auth"), l \in Mixtures("labels") :
          nvs' = [wifi |-> w, auth |-> a, labels |-> l]
    BY DEF Reset
  <1>2. \A x \in Area : nvs[x] \in [KeysOf(x) -> Blob] /\ committed[x] \in [KeysOf(x) -> Blob]
                        /\ DOMAIN nvs[x] = KeysOf(x)
    BY KeysOfBlobs
  <1>3. \A x \in Area : \A f \in Mixtures(x) :
          f \in [KeysOf(x) -> Blob] /\ (nvs[x] = committed[x] => f = nvs[x])
    <2> SUFFICES ASSUME NEW x \in Area, NEW f \in Mixtures(x)
                 PROVE  f \in [KeysOf(x) -> Blob] /\ (nvs[x] = committed[x] => f = nvs[x])
      OBVIOUS
    <2>1. /\ f = [k \in KeysOf(x) |-> f[k]]
          /\ \A k \in KeysOf(x) : f[k] \in {nvs[x][k], committed[x][k]}
      BY <1>2 DEF Mixtures
    <2> QED
      BY <2>1, <1>2
  <1>4. w \in [KeysOf("wifi") -> Blob] /\ a \in [KeysOf("auth") -> Blob]
        /\ l \in [KeysOf("labels") -> Blob]
    BY <1>3 DEF Area
  <1>5. nvs' \in Nvs
    BY <1>1, <1>4 DEF Nvs, KeysOf
  <1>6. \A x \in Area : nvs[x] = committed[x] => nvs'[x] = nvs[x]
    <2>1. nvs["wifi"] = committed["wifi"] => w = nvs["wifi"]
      BY <1>3 DEF Area
    <2>2. nvs["auth"] = committed["auth"] => a = nvs["auth"]
      BY <1>3 DEF Area
    <2>3. nvs["labels"] = committed["labels"] => l = nvs["labels"]
      BY <1>3 DEF Area
    <2>4. nvs'["wifi"] = w /\ nvs'["auth"] = a /\ nvs'["labels"] = l
      BY <1>1
    <2> QED
      BY <2>1, <2>2, <2>3, <2>4 DEF Area
  <1> QED
    BY <1>5, <1>6 DEF Reset

-----------------------------------------------------------------------------
(* Types                                                                   *)

LEMMA InitTyped == Init => TypeOK
  <1> SUFFICES ASSUME Init PROVE TypeOK
    OBVIOUS
  <1>1. Blobs \in Nvs
    BY DEF Blobs, Nvs, Blob
  <1>2. LabelOf \in [PC -> Text] /\ MaxSaves \in Nat
    BY V1Assumption DEF V1Assumption
  <1>3. Clear \in [Bank -> SUBSET Bit]
    BY DEF Clear
  <1> QED
    BY <1>1, <1>2, <1>3, EmptyText DEF Init, TypeOK

LEMMA NextTyped == TypeOK /\ [Next]_vars => TypeOK'
  <1> SUFFICES ASSUME TypeOK, [Next]_vars PROVE TypeOK'
    OBVIOUS
  <1> USE EmptyText DEF TypeOK
  <1>k. DOMAIN nvs[area] = KeysOf(area)
    BY AreaIs, KeysOfBlobs
  <1>c. conn # NoConn => conn \in Request
    OBVIOUS
  <1>1. ASSUME bringup_wifi PROVE TypeOK'
    BY <1>1 DEF bringup_wifi, store, switch
  <1>2. ASSUME BeginIo PROVE TypeOK'
    BY <1>2 DEF BeginIo, store, switch
  <1>3. ASSUME load_labels PROVE TypeOK'
    <2>1. Loaded(nvs.labels) \in [PC -> Text]
      <3>1. nvs.labels \in [PC -> Blob] /\ LabelOf \in [PC -> Text]
        BY V1Assumption DEF Nvs, V1Assumption
      <3> QED
        BY <3>1 DEF Loaded, Readable, Blob
    <2> QED
      BY <2>1, <1>3 DEF load_labels, store, switch
  <1>4. ASSUME RecvFails PROVE TypeOK'
    BY <1>4 DEF RecvFails, Answer, store, switch
  <1>5. ASSUME Refuse PROVE TypeOK'
    BY <1>5 DEF Refuse, Answer, store, switch
  <1>6. ASSUME SetWifi PROVE TypeOK'
    <2>1. area = "wifi" /\ area' = "wifi" /\ KeysOf("wifi") = {"ssid", "psk"}
      BY <1>6 DEF SetWifi, Save, Handle, area, KeysOf
    <2>2. todo' \in Seq({"ssid", "psk"} \X Text)
      BY <1>6 DEF SetWifi, Save
    <2> QED
      BY <2>1, <2>2, <1>k, <1>6 DEF SetWifi, Save, Handle, store, switch
  <1>7. ASSUME SetAuth PROVE TypeOK'
    <2>1. area = "auth" /\ area' = "auth" /\ KeysOf("auth") = {"user", "pass"}
      BY <1>7 DEF SetAuth, Save, Handle, area, KeysOf
    <2>2. todo' \in Seq({"user", "pass"} \X Text)
      BY <1>7 DEF SetAuth, Save
    <2> QED
      BY <2>1, <2>2, <1>k, <1>7 DEF SetAuth, Save, Handle, store, switch
  <1>8. ASSUME SetLabel PROVE TypeOK'
    <2>1. area = "labels" /\ area' = "labels" /\ KeysOf("labels") = PC
      BY <1>8 DEF SetLabel, Save, Handle, area, KeysOf
    <2>2. labels' \in [PC -> Text]
      BY <1>8 DEF SetLabel
    <2>3. Len(PCS) \in Nat /\ \A i \in 1 .. Len(PCS) : PCS[i] \in PC
      BY V1Assumption DEF V1Assumption, PC
    <2>4. todo' = [i \in 1 .. Len(PCS) |-> <<PCS[i], labels'[PCS[i]]>>]
      BY <1>8 DEF SetLabel, Save
    <2>5. todo' \in Seq(PC \X Text)
      BY <2>2, <2>3, <2>4
    <2> QED
      BY <2>1, <2>2, <2>5, <1>k, <1>8 DEF SetLabel, Save, Handle, store, switch
  <1>9. ASSUME SaveFails PROVE TypeOK'
    BY <1>9, AreaIs DEF SaveFails, Answer, switch
  <1>10. ASSUME SetBlob PROVE TypeOK'
    <2>1. todo \in Seq(KeysOf(area) \X Text) /\ todo # <<>>
      BY <1>10, <1>k DEF SetBlob
    <2>2. todo[1][1] \in KeysOf(area) /\ todo[1][2] \in Text
          /\ Tail(todo) \in Seq(KeysOf(area) \X Text)
      BY <2>1
    <2>3. nvs' \in Nvs
      BY <2>2, <1>10, AreaIs, BlobSet DEF SetBlob
    <2>4. area' = area
      BY <1>10 DEF SetBlob, area
    <2>5. DOMAIN nvs'[area'] = KeysOf(area)
      BY <2>3, <2>4, AreaIs, KeysOfBlobs
    <2> QED
      BY <2>2, <2>3, <2>4, <2>5, <1>10 DEF SetBlob, switch
  <1>11. ASSUME Commit PROVE TypeOK'
    <2>1. committed' \in Nvs
      BY <1>11, AreaIs, AreaCommitted DEF Commit
    <2>2. marred' \subseteq Area
      BY <1>11, AreaIs DEF Commit, Saved
    <2> QED
      BY <2>1, <2>2, <1>11 DEF Commit, Saved, Answer, switch
  <1>12. ASSUME MachineReset PROVE TypeOK'
    <2>1. nvs' \in Nvs /\ committed' \in Nvs /\ LabelOf \in [PC -> Text]
      BY <1>12, ResetLeaves, V1Assumption DEF MachineReset, V1Assumption
    <2> QED
      BY <2>1, <1>12 DEF MachineReset, Reset, switch
  <1>13. ASSUME Press PROVE TypeOK'
    <2>1. Current \in Switch
      BY <1>13, <1>c, RequestTyped DEF Press, Handle, Current
    <2>2. Port \in Bank /\ bit \in Bit
      BY <2>1, WiringTyped DEF Port, bit
    <2>3. olat' \in [Bank -> SUBSET Bit] /\ failed' \subseteq Switch
      BY <2>1, <2>2, <1>13 DEF Press, WriteOlat, AccessRaises
    <2> QED
      BY <2>3, <1>13 DEF Press, AccessRaises, Handle, Answer, store
  <1>14. ASSUME Release PROVE TypeOK'
    <2>1. Current \in Switch
      BY <1>14, <1>c, RequestTyped DEF Release, Current
    <2>2. Port \in Bank /\ bit \in Bit
      BY <2>1, WiringTyped DEF Port, bit
    <2>3. olat' \in [Bank -> SUBSET Bit] /\ failed' \subseteq Switch
      BY <2>1, <2>2, <1>14 DEF Release, WriteOlat, AccessRaises
    <2> QED
      BY <2>3, <1>14 DEF Release, AccessRaises, Answer, store
  <1>15. ASSUME AcceptFails PROVE TypeOK'
    BY <1>15 DEF AcceptFails, store, switch
  <1>16. ASSUME PowerCut PROVE TypeOK'
    <2>1. nvs' \in Nvs /\ committed' \in Nvs /\ LabelOf \in [PC -> Text]
      BY <1>16, ResetLeaves, V1Assumption DEF PowerCut, V1Assumption
    <2>2. marred' \subseteq Area
      BY <1>16, AreaIs DEF PowerCut
    <2>3. olat' \in [Bank -> SUBSET Bit]
      BY <1>16 DEF PowerCut, Clear
    <2> QED
      BY <2>1, <2>2, <2>3, <1>16 DEF PowerCut, Reset
  <1>17. ASSUME NEW r \in Request, Accept(r) PROVE TypeOK'
    <2>1. saves' \in 0 .. MaxSaves
      BY <1>17, V1Assumption DEF Accept, V1Assumption
    <2> QED
      BY <2>1, <1>17, RequestTyped DEF Accept, switch
  <1>18. ASSUME NEW n \in 0 .. Len(conn.first), NEW m \in 0 .. Len(conn.second), Recv(n, m)
         PROVE TypeOK'
    <2>1. conn \in Request
      BY <1>18, <1>c DEF Recv
    <2>2. got' \in Text \X Text
      BY <2>1, <1>18, RequestTyped, PartTyped DEF Recv
    <2> QED
      BY <2>2, <1>18 DEF Recv, store, switch
  <1>19. ASSUME UNCHANGED vars PROVE TypeOK'
    BY <1>19 DEF vars, area
  <1> QED
    BY <1>1, <1>2, <1>3, <1>4, <1>5, <1>6, <1>7, <1>8, <1>9, <1>10, <1>11, <1>12, <1>13,
       <1>14, <1>15, <1>16, <1>17, <1>18, <1>19 DEF Next, Program

(* What is set next is a blob of the name space that is being changed, and  *)
(* there is one only in the middle of a save, for any requests, in whatever *)
(* parts they come and whatever fails.                                      *)
THEOREM TypeCorrect == Spec => []TypeOK
  BY InitTyped, NextTyped, PTL DEF Spec

-----------------------------------------------------------------------------
(* The two pairs: SSID and password, user and password                     *)

Key1    == [wifi |-> "ssid", auth |-> "user"]
Key2    == [wifi |-> "psk", auth |-> "pass"]
RouteOf == [wifi |-> "/setwifi", auth |-> "/setauth"]

\* There is no pair, or it is one that was asked for.
Stored(a, blobs) ==
  \/ blobs[Key1[a]] = Missing \/ blobs[Key2[a]] = Missing
  \/ /\ <<blobs[Key1[a]], blobs[Key2[a]]>> \in Asked(RouteOf[a])
     /\ blobs[Key1[a]] # Empty
     /\ a = "auth" => blobs[Key2[a]] # Empty

\* What is left to set of a pair, and what is set.
Saving(a) ==
  /\ got[1] # Empty /\ (a = "auth" => got[2] # Empty)
  /\ \/ todo = << <<Key1[a], got[1]>>, <<Key2[a], got[2]>> >>
     \/ todo = << <<Key2[a], got[2]>> >> /\ nvs[a][Key1[a]] = got[1]
     \/ todo = <<>> /\ nvs[a][Key1[a]] = got[1] /\ nvs[a][Key2[a]] = got[2]

PairInv(a) ==
  /\ a \notin marred /\ ~(pc = "save" /\ area = a) =>
       nvs[a] = committed[a] /\ Stored(a, nvs[a])
  /\ pc = "save" /\ area = a => Saving(a)

LEMMA InitPairInv == ASSUME Init, NEW a \in {"wifi", "auth"} PROVE PairInv(a)
  BY DEF Init, PairInv, Stored, Blobs, Key1, Key2

\* Steps that neither start, make nor end a save.
LEMMA PairStutter ==
  ASSUME NEW a \in {"wifi", "auth"}, PairInv(a), UNCHANGED <<nvs, committed, marred>>,
         pc # "save", pc' # "save"
  PROVE  PairInv(a)'
  BY DEF PairInv, Stored, Asked

\* A save begins.
LEMMA PairSaveBegins ==
  ASSUME NEW a \in {"wifi", "auth"}, PairInv(a), UNCHANGED <<nvs, committed, marred>>,
         pc # "save", pc' = "save", area' = a => Saving(a)'
  PROVE  PairInv(a)'
  BY DEF PairInv, Stored, Asked

LEMMA PairReset ==
  ASSUME TypeOK, NEW a \in {"wifi", "auth"}, PairInv(a), Reset,
         a \notin marred' => a \notin marred /\ ~(pc = "save" /\ area = a)
  PROVE  PairInv(a)'
  <1>1. nvs \in Nvs /\ committed \in Nvs /\ a \in Area
    BY DEF TypeOK, Area
  <1>2. committed' = nvs' /\ (nvs[a] = committed[a] => nvs'[a] = nvs[a]) /\ pc' = "wifi"
    BY <1>1, ResetLeaves DEF Reset
  <1> QED
    BY <1>2 DEF PairInv, Stored, Asked

LEMMA NextPairInv ==
  ASSUME TypeOK, NEW a \in {"wifi", "auth"}, PairInv(a), [Next]_vars
  PROVE  PairInv(a)'
  <1>a. a \in Area /\ area \in Area /\ nvs \in Nvs /\ committed \in Nvs
    BY AreaIs DEF TypeOK, Area
  <1>1. ASSUME bringup_wifi \/ BeginIo \/ load_labels PROVE PairInv(a)'
    BY <1>1, PairStutter DEF bringup_wifi, BeginIo, load_labels, store
  <1>2. ASSUME RecvFails \/ Refuse PROVE PairInv(a)'
    BY <1>2, PairStutter DEF RecvFails, Refuse, Answer, store
  <1>3. ASSUME SetWifi PROVE PairInv(a)'
    <2>1. area' = "wifi"
      BY <1>3 DEF SetWifi, Save, Handle, area
    <2>2. a = "wifi" => Saving(a)'
      BY <1>3 DEF SetWifi, Save, Saving, Key1, Key2
    <2> QED
      BY <1>3, <2>1, <2>2, PairSaveBegins DEF SetWifi, Save, Handle, store
  <1>4. ASSUME SetAuth PROVE PairInv(a)'
    <2>1. area' = "auth"
      BY <1>4 DEF SetAuth, Save, Handle, area
    <2>2. a = "auth" => Saving(a)'
      BY <1>4 DEF SetAuth, Save, Saving, Key1, Key2
    <2> QED
      BY <1>4, <2>1, <2>2, PairSaveBegins DEF SetAuth, Save, Handle, store
  <1>5. ASSUME SetLabel PROVE PairInv(a)'
    <2>1. area' = "labels"
      BY <1>5 DEF SetLabel, Save, Handle, area
    <2> QED
      BY <1>5, <2>1, PairSaveBegins DEF SetLabel, Save, Handle, store
  <1>6. ASSUME SaveFails PROVE PairInv(a)'
    BY <1>6 DEF SaveFails, Answer, PairInv, Stored, Asked
  <1>7. ASSUME SetBlob PROVE PairInv(a)'
    <2>1. /\ pc = "save" /\ pc' = "save" /\ area' = area /\ todo # <<>>
          /\ UNCHANGED <<committed, marred, got>> /\ todo' = Tail(todo)
          /\ nvs' = [nvs EXCEPT ![area] = [@ EXCEPT ![todo[1][1]] = todo[1][2]]]
      BY <1>7 DEF SetBlob, area
    <2>2. CASE area # a
      <3>1. nvs'[a] = nvs[a]
        BY <1>a, <2>1, <2>2 DEF Nvs
      <3> QED
        BY <2>1, <2>2, <3>1 DEF PairInv, Stored, Asked
    <2>3. CASE area = a
      <3>1. nvs'[a] = [nvs[a] EXCEPT ![todo[1][1]] = todo[1][2]]
        BY <1>a, <2>1, <2>3 DEF Nvs, Area
      <3>2. /\ nvs[a] \in [{Key1[a], Key2[a]} -> Blob]
            /\ Key1[a] # Key2[a]
        <4>1. CASE a = "wifi"
          BY <4>1, <1>a DEF Nvs, Key1, Key2
        <4>2. CASE a = "auth"
          BY <4>2, <1>a DEF Nvs, Key1, Key2
        <4> QED
          BY <4>1, <4>2
      <3>3. Saving(a)
        BY <2>1, <2>3 DEF PairInv
      <3>4. CASE todo = << <<Key1[a], got[1]>>, <<Key2[a], got[2]>> >>
        <4>1. todo[1] = <<Key1[a], got[1]>> /\ todo' = << <<Key2[a], got[2]>> >>
          BY <3>4, <2>1
        <4>2. nvs'[a][Key1[a]] = got[1]
          BY <4>1, <3>1, <3>2
        <4> QED
          BY <2>1, <2>3, <3>3, <4>1, <4>2 DEF PairInv, Saving
      <3>5. CASE todo = << <<Key2[a], got[2]>> >> /\ nvs[a][Key1[a]] = got[1]
        <4>1. todo[1] = <<Key2[a], got[2]>> /\ todo' = <<>>
          BY <3>5, <2>1
        <4>2. nvs'[a][Key1[a]] = got[1] /\ nvs'[a][Key2[a]] = got[2]
          BY <4>1, <3>1, <3>2, <3>5
        <4> QED
          BY <2>1, <2>3, <3>3, <4>1, <4>2 DEF PairInv, Saving
      <3> QED
        BY <2>1, <3>3, <3>4, <3>5 DEF Saving
    <2> QED
      BY <2>2, <2>3
  <1>8. ASSUME Commit PROVE PairInv(a)'
    <2>1. /\ pc = "save" /\ pc' # "save" /\ todo = <<>> /\ nvs' = nvs
          /\ committed' = [committed EXCEPT ![area] = nvs[area]]
          /\ marred' = IF area = "labels" \/ Whole THEN marred \ {area} ELSE marred \cup {area}
      BY <1>8 DEF Commit, Saved, Answer
    <2>2. CASE area # a
      <3>1. committed'[a] = committed[a] /\ (a \notin marred' => a \notin marred)
        BY <1>a, <2>1, <2>2 DEF Nvs
      <3> QED
        BY <2>1, <2>2, <3>1 DEF PairInv, Stored, Asked
    <2>3. CASE area = a
      <3>1. committed'[a] = nvs'[a]
        BY <1>a, <2>1, <2>3 DEF Nvs, Area
      <3>2. conn \in Request /\ conn.route = RouteOf[a]
        BY <2>1, <2>3 DEF TypeOK, area, RouteOf
      <3>3. a \notin marred' => got = <<conn.first, conn.second>>
        BY <2>1, <2>3 DEF Whole
      <3>4. got[1] # Empty /\ (a = "auth" => got[2] # Empty)
            /\ nvs[a][Key1[a]] = got[1] /\ nvs[a][Key2[a]] = got[2]
        BY <2>1, <2>3 DEF PairInv, Saving
      <3>5. a \notin marred' => Stored(a, nvs'[a])
        BY <2>1, <3>2, <3>3, <3>4 DEF Stored, Asked
      <3>6. Stored(a, nvs'[a]) => Stored(a, nvs[a])'
        BY DEF Stored, Asked
      <3> QED
        BY <2>1, <3>1, <3>5, <3>6 DEF PairInv
    <2> QED
      BY <2>2, <2>3
  <1>9. ASSUME MachineReset PROVE PairInv(a)'
    BY <1>9, PairReset DEF MachineReset
  <1>10. ASSUME PowerCut PROVE PairInv(a)'
    BY <1>10, PairReset DEF PowerCut
  <1>11. ASSUME Press \/ Release PROVE PairInv(a)'
    BY <1>11, PairStutter DEF Press, Release, Handle, AccessRaises, Answer, store
  <1>12. ASSUME AcceptFails PROVE PairInv(a)'
    BY <1>12, PairStutter DEF AcceptFails, store
  <1>13. ASSUME NEW r \in Request, Accept(r) PROVE PairInv(a)'
    BY <1>13, PairStutter DEF Accept
  <1>14. ASSUME NEW n \in 0 .. Len(conn.first), NEW m \in 0 .. Len(conn.second), Recv(n, m)
         PROVE PairInv(a)'
    BY <1>14, PairStutter DEF Recv, store
  <1>15. ASSUME UNCHANGED vars PROVE PairInv(a)'
    BY <1>15 DEF vars, PairInv, Stored, Saving, Asked, area
  <1> QED
    BY <1>1, <1>2, <1>3, <1>4, <1>5, <1>6, <1>7, <1>8, <1>9, <1>10, <1>11, <1>12, <1>13,
       <1>14, <1>15 DEF Next, Program

PairsInv == TypeOK /\ PairInv("wifi") /\ PairInv("auth")

LEMMA PairsAlways == Spec => []PairsInv
  <1>1. Init => PairsInv
    BY InitTyped, InitPairInv DEF PairsInv
  <1>2. PairsInv /\ [Next]_vars => PairsInv'
    BY NextTyped, NextPairInv DEF PairsInv
  <1> QED
    BY <1>1, <1>2, PTL DEF Spec

(* For any requests, the network and password that bringup_wifi tries are a *)
(* pair of one /setwifi request, and the user and password that             *)
(* check_basic_auth compares with a pair of one /setauth request or the     *)
(* default, wherever the power is cut, unless the last change of the pair   *)
(* was interrupted or came in parts.                                        *)
THEOREM CredentialsWereAlwaysAsked == Spec => []CredentialsWereAsked
  <1>1. PairsInv => CredentialsWereAsked
    <2>1. ASSUME PairsInv, "wifi" \notin marred, pc # "save"
          PROVE  get_wifi_creds \in Asked("/setwifi") \cup {<<Empty, Empty>>}
      <3>1. Stored("wifi", nvs.wifi)
        BY <2>1 DEF PairsInv, PairInv
      <3> QED
        BY <3>1 DEF Stored, Key1, Key2, RouteOf, get_wifi_creds, Readable
    <2>2. ASSUME PairsInv, "auth" \notin marred, pc # "save"
          PROVE  get_auth_creds \in Asked("/setauth") \cup {<<DefaultUser, DefaultPass>>}
      <3>1. Stored("auth", nvs.auth)
        BY <2>2 DEF PairsInv, PairInv
      <3> QED
        BY <3>1 DEF Stored, Key1, Key2, RouteOf, get_auth_creds, Readable, Or
    <2> QED
      BY <2>1, <2>2 DEF CredentialsWereAsked
  <1> QED
    BY <1>1, PairsAlways, PTL

-----------------------------------------------------------------------------
(* Switches                                                                *)

\* While a pulse is held its own switch may be pressed too.
SwitchInv == Pressed \subseteq failed \cup (IF pc = "hold" THEN {Current} ELSE {})

\* What a write of the whole bank of the switch in hand does to every switch.
LEMMA BankWritten ==
  ASSUME TypeOK, Current \in Switch, NEW bits \in SUBSET Bit, WriteOlat(bits)
  PROVE  Pressed' = {s \in Switch : IF Wiring[s][1] = Port THEN Wiring[s][2] \in bits
                                                          ELSE s \in Pressed}
  <1>1. olat \in [Bank -> SUBSET Bit] /\ Port \in Bank
    BY WiringTyped DEF TypeOK, Port
  <1>2. \A s \in Switch : Wiring[s][1] \in Bank
    BY WiringTyped
  <1>3. \A s \in Switch : olat'[Wiring[s][1]] = IF Wiring[s][1] = Port THEN bits
                                                ELSE olat[Wiring[s][1]]
    BY <1>1, <1>2 DEF WriteOlat
  <1> QED
    BY <1>3 DEF Pressed

\* One bit set and written back with the rest of the bank: one switch more.
LEMMA BitSet ==
  ASSUME TypeOK, Current \in Switch, WriteOlat(olat[Port] \cup {bit})
  PROVE  Pressed' = Pressed \cup {Current}
  <1>1. Port \in Bank /\ bit \in Bit /\ olat \in [Bank -> SUBSET Bit]
    BY WiringTyped DEF TypeOK, Port, bit
  <1>2. Pressed' = {s \in Switch : IF Wiring[s][1] = Port THEN Wiring[s][2] \in olat[Port] \cup {bit}
                                                         ELSE s \in Pressed}
    BY <1>1, BankWritten
  <1> QED
    BY <1>2, WiringTyped DEF Pressed, Port, bit

\* One bit cleared: one switch less.
LEMMA BitCleared ==
  ASSUME TypeOK, Current \in Switch, WriteOlat(olat[Port] \ {bit})
  PROVE  Pressed' = Pressed \ {Current}
  <1>1. Port \in Bank /\ bit \in Bit /\ olat \in [Bank -> SUBSET Bit]
    BY WiringTyped DEF TypeOK, Port, bit
  <1>2. Pressed' = {s \in Switch : IF Wiring[s][1] = Port THEN Wiring[s][2] \in olat[Port] \ {bit}
                                                         ELSE s \in Pressed}
    BY <1>1, BankWritten
  <1> QED
    BY <1>2, WiringTyped DEF Pressed, Port, bit

LEMMA NextSwitchInv == TypeOK /\ SwitchInv /\ [Next]_vars => SwitchInv'
  <1> SUFFICES ASSUME TypeOK, SwitchInv, [Next]_vars PROVE SwitchInv'
    OBVIOUS
  <1>c. conn # NoConn => Current \in Switch
    BY RequestTyped DEF TypeOK, Current
  <1>s. olat' = olat => Pressed' = Pressed
    BY DEF Pressed
  <1>1. ASSUME Press PROVE SwitchInv'
    <2>1. Current \in Switch /\ pc = "handle"
      BY <1>1, <1>c DEF Press, Handle, TypeOK
    <2>2. CASE WriteOlat(olat[Port] \cup {bit}) /\ pc' = "hold" /\ UNCHANGED <<failed, conn>>
      BY <2>1, <2>2, BitSet DEF SwitchInv, Current
    <2>3. CASE AccessRaises(olat[Port] \cup {bit})
      <3>1. Pressed' \in {Pressed, Pressed \cup {Current}}
        BY <2>1, <2>3, <1>s, BitSet DEF AccessRaises
      <3> QED
        BY <2>1, <2>3, <3>1 DEF AccessRaises, Answer, SwitchInv
    <2> QED
      BY <1>1, <2>2, <2>3 DEF Press
  <1>2. ASSUME Release PROVE SwitchInv'
    <2>1. Current \in Switch /\ pc = "hold"
      BY <1>2, <1>c DEF Release, TypeOK
    <2>2. CASE WriteOlat(olat[Port] \ {bit}) /\ failed' = failed \ {Current} /\ Answer
      BY <2>1, <2>2, BitCleared DEF SwitchInv, Answer
    <2>3. CASE AccessRaises(olat[Port] \ {bit})
      <3>1. Pressed' \in {Pressed, Pressed \ {Current}}
        BY <2>1, <2>3, <1>s, BitCleared DEF AccessRaises
      <3> QED
        BY <2>1, <2>3, <3>1 DEF AccessRaises, Answer, SwitchInv
    <2> QED
      BY <1>2, <2>2, <2>3 DEF Release
  <1>3. ASSUME PowerCut PROVE SwitchInv'
    BY <1>3, WiringTyped DEF PowerCut, Clear, Pressed, SwitchInv, Bank
  <1>4. ASSUME pc # "hold", UNCHANGED switch PROVE SwitchInv'
    BY <1>4, <1>s DEF switch, SwitchInv
  <1>5. ASSUME UNCHANGED vars PROVE SwitchInv'
    BY <1>5, <1>s DEF vars, SwitchInv, Current
  <1>6. ASSUME bringup_wifi \/ BeginIo \/ load_labels \/ RecvFails \/ Refuse \/ SetWifi \/ SetAuth
                 \/ SetLabel \/ SaveFails \/ SetBlob \/ Commit \/ MachineReset \/ AcceptFails
        PROVE  pc # "hold" /\ UNCHANGED switch
    BY <1>6 DEF bringup_wifi, BeginIo, load_labels, RecvFails, Refuse, SetWifi, SetAuth, SetLabel,
       SaveFails, SetBlob, Commit, MachineReset, AcceptFails, Handle, Save, switch
  <1>7. ASSUME NEW r \in Request, Accept(r) PROVE pc # "hold" /\ UNCHANGED switch
    BY <1>7 DEF Accept, switch
  <1>8. ASSUME NEW n \in 0 .. Len(conn.first), NEW m \in 0 .. Len(conn.second), Recv(n, m)
        PROVE  pc # "hold" /\ UNCHANGED switch
    BY <1>8 DEF Recv, switch
  <1> QED
    BY <1>1, <1>2, <1>3, <1>4, <1>5, <1>6, <1>7, <1>8 DEF Next, Program

(* For any wiring of the switches to the two banks and any requests, no     *)
(* switch stays pressed between requests but those whose last pulse ended in*)
(* an exception: a write of a whole bank closes and opens no other switch.  *)
THEOREM OnlyFailuresEverLinger == Spec => []OnlyFailuresLinger
  <1>1. Init => TypeOK /\ SwitchInv
    <2>1. Init => Pressed = {}
      BY WiringTyped DEF Init, Clear, Pressed
    <2> QED
      BY <2>1, InitTyped DEF SwitchInv
  <1>2. TypeOK /\ SwitchInv /\ [Next]_vars => (TypeOK /\ SwitchInv)'
    BY NextTyped, NextSwitchInv
  <1>3. SwitchInv => OnlyFailuresLinger
    BY DEF SwitchInv, OnlyFailuresLinger
  <1> QED
    BY <1>1, <1>2, <1>3, PTL DEF Spec

-----------------------------------------------------------------------------
(* Labels                                                                  *)

SavingLabels == pc = "save" /\ area = "labels"

\* What a restart would show is what is served.
Served ==
  \A p \in PC : Len(labels[p]) <= BlobMax => labels[p] = Loaded(committed.labels)[p]

\* In a save every label is set or still to be set.
LabelsToSet ==
  /\ \A i \in 1 .. Len(todo) : todo[i][2] = labels[todo[i][1]]
  /\ \A p \in PC : nvs.labels[p] = labels[p]
                   \/ \E i \in 1 .. Len(todo) : todo[i] = <<p, labels[p]>>

LabelInv ==
  /\ "labels" \notin marred /\ ~SavingLabels =>
       /\ nvs["labels"] = committed["labels"]
       /\ pc \notin {"wifi", "io", "labels", "reset", "dead"} => Served
  /\ SavingLabels => LabelsToSet
  /\ \A p \in PC : labels[p] # Empty \/ labels[p] = LabelOf[p]

\* Steps that have nothing to do with labels.
LEMMA LabelStutter ==
  ASSUME LabelInv, UNCHANGED <<labels, marred>>, nvs'["labels"] = nvs["labels"],
         committed'["labels"] = committed["labels"], ~SavingLabels, ~SavingLabels',
         pc' \notin {"wifi", "io", "labels", "reset", "dead"} =>
           pc \notin {"wifi", "io", "labels", "reset", "dead"}
  PROVE  LabelInv'
  BY DEF LabelInv, Served, Loaded, Readable

LEMMA LabelReset ==
  ASSUME TypeOK, LabelInv, Reset, "labels" \notin marred' => "labels" \notin marred /\ ~SavingLabels
  PROVE  LabelInv'
  <1>1. nvs \in Nvs /\ committed \in Nvs /\ "labels" \in Area
    BY DEF TypeOK, Area
  <1>2. committed' = nvs' /\ pc' = "wifi" /\ labels' = LabelOf
    BY <1>1, ResetLeaves DEF Reset
  <1> QED
    BY <1>2 DEF LabelInv, SavingLabels

LEMMA NextLabelInv ==
  ASSUME TypeOK, LabelInv, [Next]_vars
  PROVE  LabelInv'
  <1>a. area \in Area /\ nvs \in Nvs /\ committed \in Nvs
    BY AreaIs DEF TypeOK
  <1>1. ASSUME bringup_wifi \/ BeginIo PROVE LabelInv'
    BY <1>1, LabelStutter DEF bringup_wifi, BeginIo, store, SavingLabels
  <1>2. ASSUME load_labels PROVE LabelInv'
    <2>1. /\ pc = "labels" /\ pc' = "accept" /\ UNCHANGED <<nvs, committed, marred>>
          /\ labels' = Loaded(nvs.labels)
      BY <1>2 DEF load_labels, store
    <2>2. \A p \in PC : labels'[p] # Empty \/ labels'[p] = LabelOf[p]
      BY <2>1 DEF Loaded
    <2>3. "labels" \notin marred => nvs["labels"] = committed["labels"] /\ Served'
      BY <2>1 DEF LabelInv, SavingLabels, Served, Loaded, Readable
    <2> QED
      BY <2>1, <2>2, <2>3 DEF LabelInv, SavingLabels
  <1>3. ASSUME RecvFails \/ Refuse PROVE LabelInv'
    BY <1>3, LabelStutter DEF RecvFails, Refuse, Answer, store, SavingLabels
  <1>4. ASSUME SetWifi PROVE LabelInv'
    <2>1. area' = "wifi"
      BY <1>4 DEF SetWifi, Save, Handle, area
    <2> QED
      BY <1>4, <2>1, LabelStutter DEF SetWifi, Save, Handle, store, SavingLabels
  <1>5. ASSUME SetAuth PROVE LabelInv'
    <2>1. area' = "auth"
      BY <1>5 DEF SetAuth, Save, Handle, area
    <2> QED
      BY <1>5, <2>1, LabelStutter DEF SetAuth, Save, Handle, store, SavingLabels
  <1>6. ASSUME SetLabel PROVE LabelInv'
    <2>1. area' = "labels" /\ pc' = "save"
      BY <1>6 DEF SetLabel, Save, Handle, area
    <2>2. labels' = [labels EXCEPT ![conn.pc] = got[2]] /\ got[2] # Empty
      BY <1>6 DEF SetLabel
    <2>3. Len(PCS) \in Nat /\ \A p \in PC : \E i \in 1 .. Len(PCS) : PCS[i] = p
      BY V1Assumption DEF V1Assumption, PC
    <2>4. todo' = [i \in 1 .. Len(PCS) |-> <<PCS[i], labels'[PCS[i]]>>]
      BY <1>6 DEF SetLabel, Save
    <2>5. LabelsToSet'
      <3>1. Len(todo') = Len(PCS)
        BY <2>3, <2>4
      <3> QED
        BY <2>3, <2>4, <3>1 DEF LabelsToSet
    <2>6. \A p \in PC : labels'[p] # Empty \/ labels'[p] = LabelOf[p]
      BY <2>2 DEF TypeOK, LabelInv
    <2> QED
      BY <2>1, <2>5, <2>6 DEF LabelInv, SavingLabels
  <1>7. ASSUME SaveFails PROVE LabelInv'
    BY <1>7 DEF SaveFails, Answer, LabelInv, SavingLabels, Served, Loaded, Readable
  <1>8. ASSUME SetBlob PROVE LabelInv'
    <2>1. /\ pc = "save" /\ pc' = "save" /\ area' = area /\ todo # <<>>
          /\ UNCHANGED <<committed, marred, labels>> /\ todo' = Tail(todo)
          /\ nvs' = [nvs EXCEPT ![area] = [@ EXCEPT ![todo[1][1]] = todo[1][2]]]
      BY <1>8 DEF SetBlob, area
    <2>2. CASE area # "labels"
      <3>1. nvs'["labels"] = nvs["labels"]
        BY <1>a, <2>1, <2>2 DEF Nvs
      <3> QED
        BY <2>1, <2>2, <3>1, LabelStutter DEF SavingLabels
    <2>3. CASE area = "labels"
      <3>1. nvs'["labels"] = [nvs["labels"] EXCEPT ![todo[1][1]] = todo[1][2]]
            /\ nvs["labels"] \in [PC -> Blob]
        BY <1>a, <2>1, <2>3 DEF Nvs, Area
      <3>2. LabelsToSet
        BY <2>1, <2>3 DEF LabelInv, SavingLabels
      <3>3. todo \in Seq(PC \X Text)
        <4>1. DOMAIN nvs["labels"] = PC
          BY <3>1
        <4> QED
          BY <4>1, <2>1, <2>3 DEF TypeOK
      <3>4. /\ Len(todo) \in Nat \ {0} /\ Len(todo') = Len(todo) - 1
            /\ \A i \in 1 .. Len(todo') : todo'[i] = todo[i + 1]
            /\ todo[1] = <<todo[1][1], todo[1][2]>> /\ todo[1][1] \in PC
        BY <2>1, <3>3
      <3>5. \A i \in 1 .. Len(todo') : todo'[i][2] = labels[todo'[i][1]]
        BY <3>2, <3>4 DEF LabelsToSet
      <3>6. ASSUME NEW p \in PC
            PROVE  nvs'["labels"][p] = labels[p]
                   \/ \E i \in 1 .. Len(todo') : todo'[i] = <<p, labels[p]>>
        <4>1. todo[1][2] = labels[todo[1][1]]
          BY <3>2, <3>4 DEF LabelsToSet
        <4>2. CASE todo[1][1] = p
          BY <4>1, <4>2, <3>1
        <4>3. CASE todo[1][1] # p
          <5>1. nvs'["labels"][p] = nvs["labels"][p]
            BY <4>3, <3>1
          <5>2. ASSUME NEW i \in 1 .. Len(todo), todo[i] = <<p, labels[p]>>
                PROVE  \E j \in 1 .. Len(todo') : todo'[j] = <<p, labels[p]>>
            <6>1. i # 1
              BY <4>3, <5>2
            <6>2. i - 1 \in 1 .. Len(todo') /\ todo'[i - 1] = todo[i]
              BY <6>1, <3>4
            <6> QED
              BY <6>2, <5>2
          <5> QED
            BY <5>1, <5>2, <3>2 DEF LabelsToSet
        <4> QED
          BY <4>2, <4>3
      <3>7. LabelsToSet'
        BY <2>1, <3>5, <3>6 DEF LabelsToSet
      <3> QED
        BY <2>1, <2>3, <3>7 DEF LabelInv, SavingLabels
    <2> QED
      BY <2>2, <2>3
  <1>9. ASSUME Commit PROVE LabelInv'
    <2>1. /\ pc = "save" /\ pc' # "save" /\ todo = <<>> /\ UNCHANGED <<nvs, labels>>
          /\ committed' = [committed EXCEPT ![area] = nvs[area]]
          /\ marred' = IF area = "labels" \/ Whole THEN marred \ {area} ELSE marred \cup {area}
          /\ area # "labels" => pc' = "reset"
      BY <1>9 DEF Commit, Saved, Answer
    <2>2. CASE area # "labels"
      <3>1. committed'["labels"] = committed["labels"]
            /\ ("labels" \notin marred' => "labels" \notin marred)
        BY <1>a, <2>1, <2>2 DEF Nvs
      <3> QED
        BY <2>1, <2>2, <3>1 DEF LabelInv, SavingLabels
    <2>3. CASE area = "labels"
      <3>1. committed'["labels"] = nvs'["labels"]
        BY <1>a, <2>1, <2>3 DEF Nvs, Area
      <3>2. \A p \in PC : nvs.labels[p] = labels[p]
        BY <2>1, <2>3 DEF LabelInv, SavingLabels, LabelsToSet
      <3>3. \A p \in PC : labels[p] \in Text
        BY DEF TypeOK
      <3>4. Served'
        BY <2>1, <3>1, <3>2, <3>3, V1Assumption
           DEF Served, Loaded, Readable, LabelInv, V1Assumption
      <3> QED
        BY <2>1, <3>1, <3>4 DEF LabelInv, SavingLabels
    <2> QED
      BY <2>2, <2>3
  <1>10. ASSUME MachineReset PROVE LabelInv'
    BY <1>10, LabelReset DEF MachineReset, SavingLabels
  <1>11. ASSUME PowerCut PROVE LabelInv'
    BY <1>11, LabelReset DEF PowerCut, SavingLabels
  <1>12. ASSUME Press \/ Release PROVE LabelInv'
    BY <1>12, LabelStutter DEF Press, Release, Handle, AccessRaises, Answer, store, SavingLabels
  <1>13. ASSUME AcceptFails PROVE LabelInv'
    BY <1>13, LabelStutter DEF AcceptFails, store, SavingLabels
  <1>14. ASSUME NEW r \in Request, Accept(r) PROVE LabelInv'
    BY <1>14, LabelStutter DEF Accept, SavingLabels
  <1>15. ASSUME NEW n \in 0 .. Len(conn.first), NEW m \in 0 .. Len(conn.second), Recv(n, m)
         PROVE LabelInv'
    BY <1>15, LabelStutter DEF Recv, store, SavingLabels
  <1>16. ASSUME UNCHANGED vars PROVE LabelInv'
    BY <1>16 DEF vars, LabelInv, SavingLabels, Served, LabelsToSet, Loaded, Readable, area
  <1> QED
    BY <1>1, <1>2, <1>3, <1>4, <1>5, <1>6, <1>7, <1>8, <1>9, <1>10, <1>11, <1>12, <1>13,
       <1>14, <1>15, <1>16 DEF Next, Program

(* For any number of PCs and any labels, whenever the server waits for a    *)
(* request load_labels would bring back what it serves, but for labels too  *)
(* long for its buffer, unless the last save_labels was interrupted.        *)
THEOREM LabelsAreAlwaysSaved == Spec => []LabelsAreSaved
  <1>1. Init => TypeOK /\ LabelInv
    BY InitTyped DEF Init, LabelInv, SavingLabels, Blobs
  <1>2. TypeOK /\ LabelInv /\ [Next]_vars => (TypeOK /\ LabelInv)'
    BY NextTyped, NextLabelInv
  <1>3. TypeOK /\ LabelInv => LabelsAreSaved
    BY DEF LabelInv, SavingLabels, Served, LabelsAreSaved
  <1> QED
    BY <1>1, <1>2, <1>3, PTL DEF Spec

=============================================================================
