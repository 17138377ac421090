--------------------------- MODULE CHILinkProofs ---------------------------
(* Proofs about the CHI link for every credit limit, flit set and queue bound. *)
EXTENDS CHILink, SequenceTheorems, TLAPS

LEMMA ByteArithmetic ==
  /\ \A x \in 0..254 : Inc8(x) = x + 1
  /\ \A x \in 1..255 : Dec8(x) = x - 1
  /\ \A x \in 0..255 : Inc8(x) \in 0..255 /\ Dec8(x) \in 0..255
BY DEF Inc8, Dec8

(* The constructors establish the invariant. *)
LEMMA LinkInit == Init => LinkInv
<1> SUFFICES ASSUME Init PROVE LinkInv
  OBVIOUS
<1>1. PICK receivers \in ChannelReceivers :
        rx_credits_available = [e \in End |-> IF e \in receivers THEN MaxLinkCredits ELSE -1]
  BY DEF Init
<1>2. <<>> \in Seq(Flit) /\ Len(<<>>) = 0
  BY EmptySeq
<1>3. TypeOK
  <2>1. rx_credits_available \in [End -> -1..MaxLinkCredits]
    BY <1>1, LinkAssumption
  <2>2. tx_queue \in [End -> Seq(Flit)] /\ rx_queue \in [End -> Seq(Flit)]
    BY <1>2 DEF Init
  <2>3. tx_credits_available \in [End -> 0..255] /\ rx_credit_sent_upstream \in 0..255
    BY DEF Init
  <2>4. edge \in {"neg", "pos"} /\ ran \in {{}, {"gen"}, {"port"}} /\ inactive_error \in BOOLEAN
    BY DEF Init
  <2>5. QED
    BY <2>1, <2>2, <2>3, <2>4 DEF TypeOK
<1>4. QED
  BY <1>1, <1>2, <1>3, LinkAssumption
  DEF Init, LinkInv, PortCredits, GenCredits, GenQueueBounded, NoInactiveFlit, DisabledSilent,
      PortLimit, GenDrained, Active, End

LEMMA PeerValues == Peer("gen") = "port" /\ Peer("port") = "gen"
BY DEF Peer

(* A falling edge of the generator: it may issue a credit and it may deliver a
   flit to the port. *)
LEMMA GenSends == LinkInv /\ send_flits("gen") => LinkInv'
<1> SUFFICES ASSUME LinkInv, send_flits("gen") PROVE LinkInv'
  OBVIOUS
<1> USE LinkAssumption, PeerValues
<1> DEFINE credit   == IssuesCredit("gen")
           flit     == SendsFlit("gen")
           accepted == flit /\ Active("port")
<1>1. TypeOK /\ PortCredits /\ GenCredits /\ GenQueueBounded /\ NoInactiveFlit
      /\ DisabledSilent /\ PortLimit /\ GenDrained
  BY DEF LinkInv
<1>2. "gen" \in End /\ "port" \in End
  BY DEF End
<1>3. /\ tx_credits_available \in [End -> 0..255]
      /\ tx_queue \in [End -> Seq(Flit)] /\ rx_queue \in [End -> Seq(Flit)]
      /\ rx_credits_available \in [End -> -1..MaxLinkCredits]
      /\ rx_credit_sent_upstream \in 0..255
  BY <1>1 DEF TypeOK
<1>a. /\ \A e \in End : tx_credits_available[e] \in 0..255
      /\ \A e \in End : rx_credits_available[e] \in -1..MaxLinkCredits
  BY <1>3
<1>b. /\ tx_credits_available["gen"] \in 0..255 /\ tx_credits_available["port"] \in 0..255
      /\ rx_credits_available["gen"] \in -1..MaxLinkCredits
      /\ rx_credits_available["port"] \in -1..MaxLinkCredits
      /\ rx_credit_sent_upstream \in 0..255
  BY <1>2, <1>3, <1>a
<1>4. flit => Active("port")
  BY <1>1, <1>b DEF SendsFlit, DisabledSilent, Active
<1>5. accepted <=> flit
  BY <1>4
<1>6. /\ tx_credits_available'["gen"] = IF flit THEN tx_credits_available["gen"] - 1
                                                ELSE tx_credits_available["gen"]
      /\ tx_credits_available'["port"] = IF credit THEN tx_credits_available["port"] + 1
                                                   ELSE tx_credits_available["port"]
      /\ tx_credits_available' \in [End -> 0..255]
  <2>1. flit => tx_credits_available["gen"] \in 1..255
    BY <1>b DEF SendsFlit
  <2>2. credit => tx_credits_available["port"] \in 0..254
    BY <1>1, <1>b DEF IssuesCredit, GenCredits, Active
  <2> DEFINE g == IF flit THEN tx_credits_available["gen"] - 1 ELSE tx_credits_available["gen"]
             p == IF credit THEN tx_credits_available["port"] + 1 ELSE tx_credits_available["port"]
  <2>3. /\ g = IF flit THEN Dec8(tx_credits_available["gen"]) ELSE tx_credits_available["gen"]
        /\ p = IF credit THEN Inc8(tx_credits_available["port"]) ELSE tx_credits_available["port"]
        /\ g \in 0..255 /\ p \in 0..255
    <3>1. flit => Dec8(tx_credits_available["gen"]) = tx_credits_available["gen"] - 1
      BY <2>1, ByteArithmetic
    <3>2. credit => Inc8(tx_credits_available["port"]) = tx_credits_available["port"] + 1
      BY <2>2, ByteArithmetic
    <3> HIDE DEF flit, credit
    <3>3. QED
      BY <1>b, <2>1, <2>2, <3>1, <3>2
  <2>4. tx_credits_available' = [tx_credits_available EXCEPT !["gen"] = g, !["port"] = p]
    BY <2>3 DEF send_flits
  <2> HIDE DEF g, p
  <2>5. /\ tx_credits_available'["gen"] = g /\ tx_credits_available'["port"] = p
        /\ tx_credits_available' \in [End -> 0..255]
    BY <1>2, <1>3, <2>3, <2>4 DEF End
  <2>6. QED
    BY <2>5 DEF g, p
<1>7. /\ rx_credit_sent_upstream' = IF flit THEN rx_credit_sent_upstream - 1
                                            ELSE rx_credit_sent_upstream
      /\ rx_credit_sent_upstream' \in 0..255
  <2>1. flit => rx_credit_sent_upstream \in 1..255
    BY <1>1, <1>b DEF SendsFlit, PortCredits
  <2>2. rx_credit_sent_upstream' = IF accepted THEN SentUpstreamAfterFlit
                                               ELSE rx_credit_sent_upstream
    BY DEF send_flits
  <2>3. flit => SentUpstreamAfterFlit = rx_credit_sent_upstream - 1
    BY <2>1, ByteArithmetic DEF SentUpstreamAfterFlit
  <2>4. QED
    BY <1>b, <1>5, <2>1, <2>2, <2>3
<1>8. /\ rx_credits_available'["gen"] = IF credit THEN rx_credits_available["gen"] - 1
                                                  ELSE rx_credits_available["gen"]
      /\ rx_credits_available'["port"] = rx_credits_available["port"]
      /\ rx_credits_available' \in [End -> -1..MaxLinkCredits]
  BY <1>2, <1>3 DEF send_flits, IssuesCredit, End
<1>9. /\ rx_queue'["gen"] = rx_queue["gen"]
      /\ Len(rx_queue'["port"]) = IF flit THEN Len(rx_queue["port"]) + 1
                                          ELSE Len(rx_queue["port"])
      /\ rx_queue' \in [End -> Seq(Flit)]
      /\ tx_queue' \in [End -> Seq(Flit)]
  <2>1. flit => Head(tx_queue["gen"]) \in Flit /\ Tail(tx_queue["gen"]) \in Seq(Flit)
    BY <1>2, <1>3, HeadTailProperties DEF SendsFlit
  <2>2. rx_queue' = [rx_queue EXCEPT !["port"] = IF accepted THEN Append(@, Head(tx_queue["gen"]))
                                                            ELSE @]
    BY DEF send_flits
  <2>3. tx_queue' = [tx_queue EXCEPT !["gen"] = IF flit THEN Tail(@) ELSE @]
    BY DEF send_flits
  <2>4. flit => /\ Append(rx_queue["port"], Head(tx_queue["gen"])) \in Seq(Flit)
                /\ Len(Append(rx_queue["port"], Head(tx_queue["gen"])))
                     = Len(rx_queue["port"]) + 1
    BY <1>2, <1>3, <2>1, AppendProperties
  <2>5. QED
    BY <1>2, <1>3, <1>5, <2>1, <2>2, <2>3, <2>4 DEF End
<1>10. /\ edge = "neg" /\ "gen" \notin ran
       /\ ran' = IF ran = {"port"} THEN {} ELSE {"gen"}
       /\ edge' = IF ran = {"port"} THEN "pos" ELSE "neg"
  BY <1>1 DEF send_flits, Ran, TypeOK, End
<1>11. inactive_error' = FALSE
  BY <1>1, <1>5 DEF send_flits, NoInactiveFlit, TypeOK
<1>12. TypeOK'
  BY <1>6, <1>7, <1>8, <1>9, <1>10, <1>11 DEF TypeOK
<1>13. Len(rx_queue["port"]) \in Nat
  BY <1>2, <1>3, LenProperties
<1>14. PortCredits'
  BY <1>1, <1>b, <1>6, <1>7, <1>8, <1>9, <1>13 DEF PortCredits, Active
<1>15. GenCredits' /\ DisabledSilent'
  BY <1>1, <1>b, <1>4, <1>6, <1>8 DEF GenCredits, DisabledSilent, Active, IssuesCredit
<1>16. GenQueueBounded' /\ NoInactiveFlit' /\ PortLimit'
  BY <1>1, <1>8, <1>9, <1>11 DEF GenQueueBounded, NoInactiveFlit, PortLimit
<1>17. GenDrained'
  BY <1>1, <1>9, <1>10 DEF GenDrained, TypeOK
<1>18. QED
  BY <1>12, <1>14, <1>15, <1>16, <1>17 DEF LinkInv

(* A falling edge of the port: the same, the other way round. *)
LEMMA PortSends == LinkInv /\ send_flits("port") => LinkInv'
<1> SUFFICES ASSUME LinkInv, send_flits("port") PROVE LinkInv'
  OBVIOUS
<1> USE LinkAssumption, PeerValues
<1> DEFINE credit   == IssuesCredit("port")
           flit     == SendsFlit("port")
           accepted == flit /\ Active("gen")
<1>1. TypeOK /\ PortCredits /\ GenCredits /\ GenQueueBounded /\ NoInactiveFlit
      /\ DisabledSilent /\ PortLimit /\ GenDrained
  BY DEF LinkInv
<1>2. "gen" \in End /\ "port" \in End
  BY DEF End
<1>3. /\ tx_credits_available \in [End -> 0..255]
      /\ tx_queue \in [End -> Seq(Flit)] /\ rx_queue \in [End -> Seq(Flit)]
      /\ rx_credits_available \in [End -> -1..MaxLinkCredits]
      /\ rx_credit_sent_upstream \in 0..255
  BY <1>1 DEF TypeOK
<1>a. /\ \A e \in End : tx_credits_available[e] \in 0..255
      /\ \A e \in End : rx_credits_available[e] \in -1..MaxLinkCredits
  BY <1>3
<1>b. /\ tx_credits_available["gen"] \in 0..255 /\ tx_credits_available["port"] \in 0..255
      /\ rx_credits_available["gen"] \in -1..MaxLinkCredits
      /\ rx_credits_available["port"] \in -1..MaxLinkCredits
      /\ rx_credit_sent_upstream \in 0..255
  BY <1>2, <1>3, <1>a
<1>c. Len(rx_queue["port"]) \in Nat
  BY <1>2, <1>3, LenProperties
<1>4. flit => Active("gen")
  BY <1>1, <1>b DEF SendsFlit, DisabledSilent, Active
<1>5. accepted <=> flit
  BY <1>4
<1>6. /\ credit => tx_credits_available["gen"] \in 0..254 /\ rx_credit_sent_upstream \in 0..254
      /\ credit => Active("port")
  BY <1>1, <1>b, <1>c DEF IssuesCredit, PortCredits, Active
<1>7. flit => tx_credits_available["port"] \in 1..255
  BY <1>b DEF SendsFlit
<1>8. /\ tx_credits_available'["port"] = IF flit THEN tx_credits_available["port"] - 1
                                                 ELSE tx_credits_available["port"]
      /\ tx_credits_available'["gen"] = IF credit THEN tx_credits_available["gen"] + 1
                                                  ELSE tx_credits_available["gen"]
      /\ tx_credits_available' \in [End -> 0..255]
  <2> DEFINE g == IF credit THEN tx_credits_available["gen"] + 1 ELSE tx_credits_available["gen"]
             p == IF flit THEN tx_credits_available["port"] - 1 ELSE tx_credits_available["port"]
  <2>1. /\ g = IF credit THEN Inc8(tx_credits_available["gen"]) ELSE tx_credits_available["gen"]
        /\ p = IF flit THEN Dec8(tx_credits_available["port"]) ELSE tx_credits_available["port"]
        /\ g \in 0..255 /\ p \in 0..255
    <3>1. flit => Dec8(tx_credits_available["port"]) = tx_credits_available["port"] - 1
      BY <1>7, ByteArithmetic
    <3>2. credit => Inc8(tx_credits_available["gen"]) = tx_credits_available["gen"] + 1
      BY <1>6, ByteArithmetic
    <3> HIDE DEF flit, credit
    <3>3. QED
      BY <1>b, <1>6, <1>7, <3>1, <3>2
  <2>2. tx_credits_available' = [tx_credits_available EXCEPT !["port"] = p, !["gen"] = g]
    BY <2>1 DEF send_flits
  <2> HIDE DEF g, p
  <2>3. /\ tx_credits_available'["gen"] = g /\ tx_credits_available'["port"] = p
        /\ tx_credits_available' \in [End -> 0..255]
    BY <1>2, <1>3, <2>1, <2>2 DEF End
  <2>4. QED
    BY <2>3 DEF g, p
<1>9. /\ rx_credit_sent_upstream' = IF credit THEN rx_credit_sent_upstream + 1
                                              ELSE rx_credit_sent_upstream
      /\ rx_credit_sent_upstream' \in 0..255
  <2>1. credit => Inc8(rx_credit_sent_upstream) = rx_credit_sent_upstream + 1
    BY <1>6, ByteArithmetic
  <2>2. rx_credit_sent_upstream' = IF credit THEN Inc8(rx_credit_sent_upstream)
                                             ELSE rx_credit_sent_upstream
    BY DEF send_flits
  <2> HIDE DEF flit, credit
  <2>3. QED
    BY <1>b, <1>6, <2>1, <2>2
<1>10. /\ rx_credits_available'["gen"] = IF flit THEN rx_credits_available["gen"] + 1
                                                 ELSE rx_credits_available["gen"]
       /\ rx_credits_available'["port"] = rx_credits_available["port"]
       /\ rx_credits_available' \in [End -> -1..MaxLinkCredits]
  <2>1. flit => rx_credits_available["gen"] + 1 \in -1..MaxLinkCredits
    BY <1>1, <1>b, <1>4, <1>7 DEF GenCredits
  <2>2. rx_credits_available' =
          [rx_credits_available EXCEPT !["gen"] = IF accepted THEN @ + 1 ELSE @]
    BY DEF send_flits
  <2> HIDE DEF flit
  <2>3. QED
    BY <1>2, <1>3, <1>5, <2>1, <2>2 DEF End
<1>11. /\ rx_queue'["port"] = rx_queue["port"]
       /\ rx_queue["gen"] = <<>>
       /\ Len(rx_queue'["gen"]) <= 1
       /\ rx_queue' \in [End -> Seq(Flit)]
       /\ tx_queue' \in [End -> Seq(Flit)]
  <2>1. flit => Head(tx_queue["port"]) \in Flit /\ Tail(tx_queue["port"]) \in Seq(Flit)
    BY <1>2, <1>3, HeadTailProperties DEF SendsFlit
  <2>2. rx_queue' = [rx_queue EXCEPT !["gen"] = IF accepted THEN Append(@, Head(tx_queue["port"]))
                                                           ELSE @]
    BY DEF send_flits
  <2>3. tx_queue' = [tx_queue EXCEPT !["port"] = IF flit THEN Tail(@) ELSE @]
    BY DEF send_flits
  <2>4. rx_queue["gen"] = <<>> /\ Len(rx_queue["gen"]) = 0
    BY <1>1, EmptySeq DEF send_flits, Ran, GenDrained
  <2>5. flit => /\ Append(rx_queue["gen"], Head(tx_queue["port"])) \in Seq(Flit)
                /\ Len(Append(rx_queue["gen"], Head(tx_queue["port"]))) = 1
    BY <1>2, <1>3, <2>1, <2>4, AppendProperties
  <2> HIDE DEF flit
  <2>6. QED
    BY <1>2, <1>3, <1>5, <2>1, <2>2, <2>3, <2>4, <2>5 DEF End
<1>12. /\ edge = "neg" /\ "port" \notin ran
       /\ ran' = IF ran = {"gen"} THEN {} ELSE {"port"}
       /\ edge' = IF ran = {"gen"} THEN "pos" ELSE "neg"
  BY <1>1 DEF send_flits, Ran, TypeOK, End
<1>13. inactive_error' = FALSE
  BY <1>1, <1>5 DEF send_flits, NoInactiveFlit, TypeOK
<1>14. TypeOK'
  BY <1>8, <1>9, <1>10, <1>11, <1>12, <1>13 DEF TypeOK
<1>15. PortCredits'
  <2>1. credit => rx_credit_sent_upstream + Len(rx_queue["port"]) < MaxLinkCredits
    BY <1>b, <1>c DEF IssuesCredit
  <2> HIDE DEF credit
  <2>2. (tx_credits_available["gen"] = rx_credit_sent_upstream)'
    BY <1>1, <1>8, <1>9 DEF PortCredits
  <2>3. (Active("port") => rx_credit_sent_upstream + Len(rx_queue["port"]) <= MaxLinkCredits)'
    <3>1. Active("port") => rx_credit_sent_upstream + Len(rx_queue["port"]) <= MaxLinkCredits
      BY <1>1 DEF PortCredits
    <3>2. Active("port")' <=> Active("port")
      BY <1>10 DEF Active
    <3>3. rx_queue'["port"] = rx_queue["port"]
      BY <1>11
    <3>4. CASE credit
      <4>1. \A a, b, m \in Int : a + b < m => (a + 1) + b <= m
        OBVIOUS
      <4>2. rx_credit_sent_upstream \in Int /\ Len(rx_queue["port"]) \in Int /\ MaxLinkCredits \in Int
        BY <1>b, <1>c
      <4>3. rx_credit_sent_upstream' = rx_credit_sent_upstream + 1
        BY <1>9, <3>4
      <4>4. MaxLinkCredits' = MaxLinkCredits
        OBVIOUS
      <4>5. QED
        BY <2>1, <3>3, <3>4, <4>1, <4>2, <4>3, <4>4, Zenon
    <3>5. CASE ~credit
      BY <1>9, <3>1, <3>2, <3>3, <3>5
    <3>6. QED
      BY <3>4, <3>5
  <2>4. QED
    BY <2>2, <2>3 DEF PortCredits
<1>16. GenCredits' /\ DisabledSilent'
  BY <1>1, <1>b, <1>4, <1>6, <1>8, <1>10 DEF GenCredits, DisabledSilent, Active
<1>17. GenQueueBounded' /\ NoInactiveFlit' /\ PortLimit'
  BY <1>1, <1>10, <1>11, <1>13 DEF GenQueueBounded, NoInactiveFlit, PortLimit
<1>18. GenDrained'
  BY <1>12 DEF GenDrained
<1>19. QED
  BY <1>14, <1>15, <1>16, <1>17, <1>18 DEF LinkInv

(* The rising edge moves no credit: flits are queued and taken. *)
LEMMA RisingEdge ==
  ASSUME LinkInv,
         \/ \E e \in End, f \in Flit : QueueFlit(e, f)
         \/ GenPosedge \/ PortTakes \/ PortIdles
  PROVE  LinkInv'
<1> USE LinkAssumption
<1>1. TypeOK /\ PortCredits /\ GenCredits /\ GenQueueBounded /\ NoInactiveFlit
      /\ DisabledSilent /\ PortLimit /\ GenDrained
  BY DEF LinkInv
<1>2. "gen" \in End /\ "port" \in End
  BY DEF End
<1>3. /\ tx_queue \in [End -> Seq(Flit)] /\ rx_queue \in [End -> Seq(Flit)]
      /\ rx_queue["gen"] \in Seq(Flit) /\ rx_queue["port"] \in Seq(Flit)
      /\ Len(rx_queue["gen"]) \in Nat /\ Len(rx_queue["port"]) \in Nat
  BY <1>1, <1>2, LenProperties DEF TypeOK
<1>4. \A q \in Seq(Flit) : q # <<>> => /\ Tail(q) \in Seq(Flit) /\ Len(Tail(q)) = Len(q) - 1
                                       /\ Len(q) \in Nat \ {0}
  BY HeadTailProperties, EmptySeq
<1>5. UNCHANGED <<tx_credits_available, rx_credits_available, rx_credit_sent_upstream,
                  inactive_error>>
  BY DEF QueueFlit, GenPosedge, PortTakes, PortIdles
<1>6. edge = "pos"
  BY DEF QueueFlit, GenPosedge, PortTakes, PortIdles
<1>7. ASSUME tx_queue' \in [End -> Seq(Flit)], rx_queue' \in [End -> Seq(Flit)],
             Len(rx_queue'["port"]) <= Len(rx_queue["port"]), Len(rx_queue'["port"]) \in Nat,
             Len(rx_queue'["gen"]) <= 1, GenDrained',
             ran' \in {{}, {"gen"}, {"port"}}, edge' \in {"neg", "pos"}
      PROVE  LinkInv'
  <2>1. TypeOK'
    BY <1>1, <1>5, <1>7 DEF TypeOK
  <2>2. PortCredits'
    <3>1. rx_credit_sent_upstream \in Nat
      BY <1>1 DEF TypeOK
    <3>2. QED
      BY <1>1, <1>3, <1>5, <1>7, <3>1 DEF PortCredits, Active
  <2>3. GenCredits' /\ DisabledSilent' /\ PortLimit' /\ NoInactiveFlit' /\ GenQueueBounded'
    BY <1>1, <1>5, <1>7
    DEF GenCredits, DisabledSilent, PortLimit, NoInactiveFlit, GenQueueBounded, Active
  <2>4. QED
    BY <1>7, <2>1, <2>2, <2>3 DEF LinkInv
<1>8. CASE \E e \in End, f \in Flit : QueueFlit(e, f)
  <2>1. PICK e \in End, f \in Flit : QueueFlit(e, f)
    BY <1>8
  <2>2. tx_queue' \in [End -> Seq(Flit)]
    <3>1. Append(tx_queue[e], f) \in Seq(Flit)
      BY <1>3, AppendProperties
    <3>2. tx_queue' = [tx_queue EXCEPT ![e] = Append(@, f)]
      BY <2>1 DEF QueueFlit
    <3>3. QED
      BY <1>3, <3>1, <3>2
  <2>3. rx_queue' = rx_queue /\ ran' = ran /\ edge' = edge
    BY <2>1 DEF QueueFlit
  <2>4. GenDrained'
    BY <1>1, <2>3 DEF GenDrained
  <2>5. Len(rx_queue["gen"]) <= 1 /\ ran \in {{}, {"gen"}, {"port"}} /\ edge \in {"neg", "pos"}
    BY <1>1 DEF TypeOK, GenQueueBounded
  <2>6. QED
    BY <1>3, <1>7, <2>2, <2>3, <2>4, <2>5
<1>9. CASE GenPosedge
  <2>1. tx_queue' = tx_queue
    BY <1>9 DEF GenPosedge
  <2>2. /\ rx_queue' \in [End -> Seq(Flit)]
        /\ rx_queue'["port"] = rx_queue["port"]
        /\ rx_queue'["gen"] = <<>>
    <3>1. CASE rx_queue["gen"] # <<>>
      <4>1. rx_queue' = [rx_queue EXCEPT !["gen"] = Tail(rx_queue["gen"])]
        BY <1>9, <3>1 DEF GenPosedge, PopRx
      <4>2. Len(Tail(rx_queue["gen"])) = 0 /\ Tail(rx_queue["gen"]) \in Seq(Flit)
        <5>1. Len(rx_queue["gen"]) <= 1
          BY <1>1 DEF GenQueueBounded
        <5>2. /\ Tail(rx_queue["gen"]) \in Seq(Flit)
              /\ Len(Tail(rx_queue["gen"])) = Len(rx_queue["gen"]) - 1
              /\ Len(rx_queue["gen"]) \in Nat \ {0}
          BY <1>3, <1>4, <3>1
        <5>3. \A n \in Nat \ {0} : n <= 1 => n - 1 = 0
          OBVIOUS
        <5>4. QED
          BY <5>1, <5>2, <5>3, Zenon
      <4>3. Tail(rx_queue["gen"]) = <<>>
        BY <4>2, EmptySeq
      <4>4. QED
        BY <1>2, <1>3, <4>1, <4>2, <4>3 DEF End
    <3>2. CASE rx_queue["gen"] = <<>>
      BY <1>3, <1>9, <3>2 DEF GenPosedge
    <3>3. QED
      BY <3>1, <3>2
  <2>3. Len(<<>>) = 0
    BY EmptySeq
  <2>4. /\ ran' = IF ran = {"port"} THEN {} ELSE {"gen"}
        /\ edge' = IF ran = {"port"} THEN "neg" ELSE "pos"
    BY <1>1, <1>6, <1>9 DEF GenPosedge, Ran, TypeOK, End
  <2>5. GenDrained'
    BY <2>2 DEF GenDrained
  <2>6. QED
    BY <1>3, <1>7, <2>1, <2>2, <2>3, <2>4, <2>5
<1>10. CASE PortTakes \/ PortIdles
  <2>1. tx_queue' = tx_queue
    BY <1>10 DEF PortTakes, PortIdles
  <2>2. /\ rx_queue' \in [End -> Seq(Flit)]
        /\ rx_queue'["gen"] = rx_queue["gen"]
        /\ Len(rx_queue'["port"]) <= Len(rx_queue["port"]) /\ Len(rx_queue'["port"]) \in Nat
    <3>1. CASE PortTakes
      <4>1. rx_queue' = [rx_queue EXCEPT !["port"] = Tail(rx_queue["port"])]
        BY <3>1 DEF PortTakes, PopRx
      <4>2. /\ Tail(rx_queue["port"]) \in Seq(Flit)
            /\ Len(Tail(rx_queue["port"])) = Len(rx_queue["port"]) - 1
            /\ Len(rx_queue["port"]) \in Nat \ {0}
        BY <1>3, <1>4, <3>1 DEF PortTakes
      <4>3. rx_queue'["port"] = Tail(rx_queue["port"])
        BY <1>2, <1>3, <4>1
      <4>4. QED
        BY <1>2, <1>3, <4>1, <4>2, <4>3 DEF End
    <3>2. CASE PortIdles
      BY <1>3, <3>2 DEF PortIdles
    <3>3. QED
      BY <1>10, <3>1, <3>2
  <2>3. /\ ran' = IF ran = {"gen"} THEN {} ELSE {"port"}
        /\ edge' = IF ran = {"gen"} THEN "neg" ELSE "pos"
    BY <1>1, <1>6, <1>10 DEF PortTakes, PortIdles, Ran, TypeOK, End
  <2>4. GenDrained'
    BY <1>1, <1>6, <2>2, <2>3 DEF GenDrained
  <2>5. Len(rx_queue["gen"]) <= 1
    BY <1>1 DEF GenQueueBounded
  <2>6. QED
    BY <1>3, <1>7, <2>1, <2>2, <2>3, <2>4, <2>5
<1>11. QED
  BY <1>8, <1>9, <1>10

LEMMA LinkStep == LinkInv /\ [Next]_vars => LinkInv'
<1> SUFFICES ASSUME LinkInv, [Next]_vars PROVE LinkInv'
  OBVIOUS
<1>1. CASE \E e \in End : send_flits(e)
  BY <1>1, GenSends, PortSends DEF End
<1>2. CASE \/ \E e \in End, f \in Flit : QueueFlit(e, f)
           \/ GenPosedge \/ PortTakes \/ PortIdles
  BY <1>2, RisingEdge
<1>3. CASE UNCHANGED vars
  BY <1>3 DEF vars, LinkInv, TypeOK, PortCredits, GenCredits, GenQueueBounded, NoInactiveFlit,
              DisabledSilent, PortLimit, GenDrained, Active
<1>4. QED
  BY <1>1, <1>2, <1>3 DEF Next

(* The whole inductive invariant holds of the link, whatever its credit limit. *)
THEOREM LinkInvariant == Spec => []LinkInv
BY LinkInit, LinkStep, PTL DEF Spec

(* The counters of both ends keep their types; the generator's count of credits
   left to issue stays within -1 and its limit. *)
THEOREM LinkTypeCorrect == Spec => []TypeOK
<1>1. LinkInv => TypeOK
  BY DEF LinkInv
<1>2. QED
  BY LinkInvariant, <1>1, PTL

(* A step that wraps a uint8_t changes it by 255. *)
CountsMoveByOne ==
  /\ rx_credit_sent_upstream' - rx_credit_sent_upstream \in {-1, 0, 1}
  /\ \A e \in End : tx_credits_available'[e] - tx_credits_available[e] \in {-1, 0, 1}

(* Both ends have a credit to use when they decrement, and room to increment:
   the counts of the two ends follow each other. *)
LEMMA SendBounds ==
  ASSUME LinkInv
  PROVE  /\ tx_credits_available["gen"] \in 0..255 /\ tx_credits_available["port"] \in 0..255
         /\ rx_credit_sent_upstream \in 0..255
         /\ SendsFlit("gen") => tx_credits_available["gen"] \in 1..255 /\ rx_credit_sent_upstream \in 1..255
         /\ SendsFlit("port") => tx_credits_available["port"] \in 1..255
         /\ IssuesCredit("gen") => tx_credits_available["port"] \in 0..254
         /\ IssuesCredit("port") => tx_credits_available["gen"] \in 0..254 /\ rx_credit_sent_upstream \in 0..254
<1>1. /\ tx_credits_available \in [End -> 0..255] /\ rx_credit_sent_upstream \in 0..255
      /\ rx_credits_available \in [End -> -1..MaxLinkCredits] /\ rx_queue \in [End -> Seq(Flit)]
      /\ PortCredits /\ GenCredits
  BY DEF LinkInv, TypeOK
<1>2. "gen" \in End /\ "port" \in End
  BY DEF End
<1>3. /\ tx_credits_available["gen"] \in 0..255 /\ tx_credits_available["port"] \in 0..255
      /\ rx_credits_available["gen"] \in -1..MaxLinkCredits
      /\ rx_credits_available["port"] \in -1..MaxLinkCredits
      /\ Len(rx_queue["port"]) \in Nat
      /\ tx_credits_available["gen"] = rx_credit_sent_upstream
  BY <1>1, <1>2, LenProperties DEF PortCredits
<1>4. IssuesCredit("gen") => tx_credits_available["port"] \in 0..254
  <2> SUFFICES ASSUME IssuesCredit("gen") PROVE tx_credits_available["port"] \in 0..254
    OBVIOUS
  <2>1. rx_credits_available["gen"] \in 1..MaxLinkCredits
    BY <1>3, LinkAssumption DEF IssuesCredit
  <2>2. tx_credits_available["port"] + rx_credits_available["gen"] = MaxLinkCredits
    BY <1>1, <2>1, LinkAssumption DEF GenCredits, Active
  <2>3. \A x \in 0..255, y \in 1..MaxLinkCredits : x + y = MaxLinkCredits => x \in 0..254
    BY LinkAssumption
  <2>4. QED
    BY <1>3, <2>1, <2>2, <2>3
<1>5. IssuesCredit("port") => rx_credit_sent_upstream \in 0..254
  <2>1. IssuesCredit("port") => rx_credit_sent_upstream + Len(rx_queue["port"]) < rx_credits_available["port"]
    BY DEF IssuesCredit
  <2>2. QED
    BY <1>1, <1>3, <2>1, LinkAssumption
<1>6. \A e \in End : SendsFlit(e) => tx_credits_available[e] > 0
  BY DEF SendsFlit
<1>7. QED
  BY <1>1, <1>2, <1>3, <1>4, <1>5, <1>6

LEMMA SendCounts == \A e \in End : LinkInv /\ send_flits(e) => CountsMoveByOne
<1>1. ASSUME LinkInv, send_flits("gen") PROVE CountsMoveByOne
  <2>1. /\ tx_credits_available \in [End -> 0..255]
        /\ tx_credits_available' =
             [tx_credits_available EXCEPT !["gen"] = IF SendsFlit("gen") THEN Dec8(@) ELSE @,
                                          !["port"] = IF IssuesCredit("gen") THEN Inc8(@) ELSE @]
        /\ rx_credit_sent_upstream' \in {rx_credit_sent_upstream, IF SendsFlit("gen") THEN Dec8(rx_credit_sent_upstream)
                                                                                     ELSE rx_credit_sent_upstream}
    BY <1>1, PeerValues DEF send_flits, SentUpstreamAfterFlit, LinkInv, TypeOK
  <2>2. /\ tx_credits_available'["gen"] = IF SendsFlit("gen") THEN Dec8(tx_credits_available["gen"])
                                                             ELSE tx_credits_available["gen"]
        /\ tx_credits_available'["port"] = IF IssuesCredit("gen") THEN Inc8(tx_credits_available["port"])
                                                                 ELSE tx_credits_available["port"]
    BY <2>1 DEF End
  <2>3. QED
    BY <1>1, <2>1, <2>2, SendBounds DEF CountsMoveByOne, End, Inc8, Dec8
<1>2. ASSUME LinkInv, send_flits("port") PROVE CountsMoveByOne
  <2>1. /\ tx_credits_available \in [End -> 0..255]
        /\ tx_credits_available' =
             [tx_credits_available EXCEPT !["port"] = IF SendsFlit("port") THEN Dec8(@) ELSE @,
                                          !["gen"] = IF IssuesCredit("port") THEN Inc8(@) ELSE @]
        /\ rx_credit_sent_upstream' = IF IssuesCredit("port") THEN Inc8(rx_credit_sent_upstream)
                                                              ELSE rx_credit_sent_upstream
    BY <1>2, PeerValues DEF send_flits, LinkInv, TypeOK
  <2>2. /\ tx_credits_available'["port"] = IF SendsFlit("port") THEN Dec8(tx_credits_available["port"])
                                                               ELSE tx_credits_available["port"]
        /\ tx_credits_available'["gen"] = IF IssuesCredit("port") THEN Inc8(tx_credits_available["gen"])
                                                                 ELSE tx_credits_available["gen"]
    BY <2>1 DEF End
  <2>3. QED
    BY <1>2, <2>1, <2>2, SendBounds DEF CountsMoveByOne, End, Inc8, Dec8
<1>3. QED
  BY <1>1, <1>2 DEF End

(* No uint8_t credit count of either end ever wraps, though none of the
   decrements and increments of CHILink.hh tests for it. *)
THEOREM CreditsNeverWrap == Spec => [][CountsMoveByOne]_vars
<1>1. LinkInv /\ [Next]_vars => [CountsMoveByOne]_vars
  <2> SUFFICES ASSUME LinkInv, Next PROVE CountsMoveByOne
    OBVIOUS
  <2>1. CASE \E e \in End : send_flits(e)
    BY <2>1, SendCounts
  <2>2. CASE (\E e \in End, f \in Flit : QueueFlit(e, f)) \/ GenPosedge \/ PortTakes \/ PortIdles
    <3>1. UNCHANGED <<tx_credits_available, rx_credit_sent_upstream>>
      BY <2>2 DEF QueueFlit, GenPosedge, PortTakes, PortIdles
    <3>2. rx_credit_sent_upstream \in 0..255 /\ \A e \in End : tx_credits_available[e] \in 0..255
      BY DEF LinkInv, TypeOK
    <3>3. QED
      BY <3>1, <3>2 DEF CountsMoveByOne
  <2>3. QED
    BY <2>1, <2>2 DEF Next
<1>2. QED
  BY LinkInvariant, <1>1, PTL DEF Spec

(* Towards the generator no credit is lost or made: those the port holds and those
   CHIChannelState can still issue always add up to the limit. *)
THEOREM GenCreditsConserved == Spec => []GenCredits
<1>1. LinkInv => GenCredits
  BY DEF LinkInv
<1>2. QED
  BY LinkInvariant, <1>1, PTL

(* The port never holds or promises more than its credit limit, and its uint8_t
   count of credits in flight never wraps. *)
THEOREM PortCreditsHold == Spec => []PortCredits
<1>1. LinkInv => PortCredits
  BY DEF LinkInv
<1>2. QED
  BY LinkInvariant, <1>1, PTL

(* The generator's receive queue holds at most one flit. *)
THEOREM GenQueueHolds == Spec => []GenQueueBounded
<1>1. LinkInv => GenQueueBounded
  BY DEF LinkInv
<1>2. QED
  BY LinkInvariant, <1>1, PTL

(* No flit is ever delivered on a disabled channel. *)
THEOREM NoInactiveFlitHolds == Spec => []NoInactiveFlit
<1>1. LinkInv => NoInactiveFlit
  BY DEF LinkInv
<1>2. QED
  BY LinkInvariant, <1>1, PTL

(* Moving the head of one sequence to the end of the one before it leaves their
   concatenation alone. *)
LEMMA ConcatTransfer ==
  ASSUME NEW S, NEW s \in Seq(S), NEW t \in Seq(S), t # <<>>
  PROVE  Append(s, Head(t)) \o Tail(t) = s \o t
<1>1. /\ Head(t) \in S /\ Tail(t) \in Seq(S) /\ <<Head(t)>> \in Seq(S)
  BY HeadTailProperties
<1>2. Append(s, Head(t)) = s \o <<Head(t)>>
  BY <1>1, AppendIsConcat
<1>3. (s \o <<Head(t)>>) \o Tail(t) = s \o (<<Head(t)>> \o Tail(t))
  BY <1>1, ConcatAssociative
<1>4. <<Head(t)>> \o Tail(t) = t
  OBVIOUS
<1>5. QED
  BY <1>2, <1>3, <1>4

(* Taking the head of the first of two sequences takes the head of both. *)
LEMMA ConcatTail ==
  ASSUME NEW S, NEW s \in Seq(S), NEW t \in Seq(S), s # <<>>
  PROVE  s \o t # <<>> /\ Tail(s \o t) = Tail(s) \o t
OBVIOUS

LEMMA ConcatAppend ==
  ASSUME NEW S, NEW s \in Seq(S), NEW t \in Seq(S), NEW f \in S
  PROVE  s \o Append(t, f) = Append(s \o t, f)
<1>1. <<f>> \in Seq(S)
  OBVIOUS
<1>2. Append(t, f) = t \o <<f>> /\ Append(s \o t, f) = (s \o t) \o <<f>>
  BY AppendIsConcat, ConcatProperties
<1>3. QED
  BY <1>1, <1>2, ConcatAssociative

(* What is under way from end e: the abstract channel of the refinement. *)
Chan == [e \in End |-> rx_queue[Peer(e)] \o tx_queue[e]]

(* A falling edge moves a flit from one buffer to the next and is invisible. *)
LEMMA SendStutters ==
  ASSUME LinkInv, NEW e \in End, send_flits(e)
  PROVE  Chan' = Chan
<1> USE PeerValues
<1>1. TypeOK /\ NoInactiveFlit /\ DisabledSilent
  BY DEF LinkInv
<1>2. e \in {"gen", "port"} /\ Peer(e) \in End /\ Peer(e) # e /\ Peer(Peer(e)) = e
  BY DEF End
<1>3. tx_queue \in [End -> Seq(Flit)] /\ rx_queue \in [End -> Seq(Flit)]
  BY <1>1 DEF TypeOK
<1>4. SendsFlit(e) => Active(Peer(e))
  <2>1. ~Active(Peer(e)) => tx_credits_available[e] = 0
    BY <1>1, <1>2 DEF DisabledSilent
  <2>2. QED
    BY <2>1 DEF SendsFlit
<1>5. CASE SendsFlit(e)
  <2>1. /\ tx_queue' = [tx_queue EXCEPT ![e] = Tail(tx_queue[e])]
        /\ rx_queue' = [rx_queue EXCEPT ![Peer(e)] = Append(rx_queue[Peer(e)], Head(tx_queue[e]))]
    BY <1>4, <1>5 DEF send_flits
  <2>2. tx_queue[e] # <<>>
    BY <1>5 DEF SendsFlit
  <2>3. /\ tx_queue'[e] = Tail(tx_queue[e]) /\ tx_queue'[Peer(e)] = tx_queue[Peer(e)]
        /\ rx_queue'[Peer(e)] = Append(rx_queue[Peer(e)], Head(tx_queue[e]))
        /\ rx_queue'[e] = rx_queue[e]
    BY <1>2, <1>3, <2>1
  <2>4. rx_queue'[Peer(e)] \o tx_queue'[e] = rx_queue[Peer(e)] \o tx_queue[e]
    BY <1>2, <1>3, <2>2, <2>3, ConcatTransfer
  <2>5. rx_queue'[e] \o tx_queue'[Peer(e)] = rx_queue[e] \o tx_queue[Peer(e)]
    BY <2>3
  <2>6. \A d \in End : d = e \/ d = Peer(e)
    BY <1>2 DEF End
  <2>7. \A d \in End : rx_queue'[Peer(d)] \o tx_queue'[d] = rx_queue[Peer(d)] \o tx_queue[d]
    BY <1>2, <2>4, <2>5, <2>6
  <2>8. QED
    BY <2>7 DEF Chan
<1>6. CASE ~SendsFlit(e)
  <2>1. tx_queue' = tx_queue /\ rx_queue' = rx_queue
    BY <1>2, <1>3, <1>6 DEF send_flits
  <2>2. QED
    BY <2>1 DEF Chan
<1>7. QED
  BY <1>5, <1>6

(* Every step of the link is a step of the abstract channel or invisible to it. *)
LEMMA FifoStep == LinkInv /\ [Next]_vars => [Fifo!Next]_Chan
<1> SUFFICES ASSUME LinkInv, [Next]_vars PROVE [Fifo!Next]_Chan
  OBVIOUS
<1> USE PeerValues
<1>1. tx_queue \in [End -> Seq(Flit)] /\ rx_queue \in [End -> Seq(Flit)]
  BY DEF LinkInv, TypeOK
<1>2. "gen" \in End /\ "port" \in End /\ \A d \in End : Peer(d) \in End
  BY DEF End
<1>3. CASE \E e \in End : send_flits(e)
  BY <1>3, SendStutters
<1>4. ASSUME NEW e \in End, NEW f \in Flit, QueueFlit(e, f)
      PROVE  Fifo!Next
  <2>1. tx_queue' = [tx_queue EXCEPT ![e] = Append(tx_queue[e], f)] /\ rx_queue' = rx_queue
    BY <1>4 DEF QueueFlit
  <2>2. rx_queue[Peer(e)] \o Append(tx_queue[e], f) = Append(rx_queue[Peer(e)] \o tx_queue[e], f)
    <3>1. rx_queue[Peer(e)] \in Seq(Flit) /\ tx_queue[e] \in Seq(Flit)
      BY <1>1, <1>2
    <3>2. \A s, t \in Seq(Flit) : \A g \in Flit : s \o Append(t, g) = Append(s \o t, g)
      BY ConcatAppend
    <3>3. QED
      BY <1>4, <3>1, <3>2
  <2>3. \A d \in End : Chan'[d] = IF d = e THEN Append(Chan[e], f) ELSE Chan[d]
    BY <1>1, <2>1, <2>2 DEF Chan
  <2>4. Chan' = [Chan EXCEPT ![e] = Append(Chan[e], f)]
    BY <2>3 DEF Chan
  <2>5. Fifo!Queue(e, f)
    BY <2>4 DEF Fifo!Queue, Chan
  <2>6. QED
    BY <2>5 DEF Fifo!Next
<1>5. ASSUME NEW e \in End, rx_queue[Peer(e)] # <<>>, tx_queue' = tx_queue,
             rx_queue' = [rx_queue EXCEPT ![Peer(e)] = Tail(rx_queue[Peer(e)])]
      PROVE  Fifo!Next
  <2>1. /\ rx_queue[Peer(e)] \o tx_queue[e] # <<>>
        /\ Tail(rx_queue[Peer(e)] \o tx_queue[e]) = Tail(rx_queue[Peer(e)]) \o tx_queue[e]
    <3>1. rx_queue[Peer(e)] \in Seq(Flit) /\ tx_queue[e] \in Seq(Flit)
      BY <1>1, <1>2
    <3>2. QED
      BY <3>1, <1>5, ConcatTail, Zenon
  <2>2. \A d \in End : Peer(d) = Peer(e) => d = e
    BY DEF End
  <2>3. \A d \in End : Chan'[d] = IF d = e THEN Tail(Chan[e]) ELSE Chan[d]
    BY <1>1, <1>2, <1>5, <2>1, <2>2 DEF Chan
  <2>4. Chan' = [Chan EXCEPT ![e] = Tail(Chan[e])] /\ Chan[e] # <<>>
    BY <2>1, <2>3 DEF Chan
  <2>5. Fifo!Take(e)
    BY <2>4 DEF Fifo!Take, Chan
  <2>6. QED
    BY <2>5 DEF Fifo!Next
<1>6. CASE GenPosedge
  BY <1>2, <1>5, <1>6 DEF GenPosedge, PopRx, Chan
<1>7. CASE PortTakes
  BY <1>2, <1>5, <1>7 DEF PortTakes, PopRx
<1>8. CASE PortIdles \/ UNCHANGED vars
  BY <1>8 DEF PortIdles, vars, Chan
<1>9. QED
  BY <1>3, <1>4, <1>6, <1>7, <1>8 DEF Next

(* The link delivers every flit once and in order: it implements LinkFifo. *)
THEOREM LinkImplementsFifo == Spec => FifoSpec
<1>1. Init => Fifo!Init
  <2>1. \A e \in End : Peer(e) \in End
    BY PeerValues DEF End
  <2>2. <<>> \o <<>> = <<>>
    BY ConcatEmptySeq, EmptySeq
  <2>3. QED
    BY <2>1, <2>2 DEF Init, Fifo!Init
<1>2. QED
  BY <1>1, LinkInvariant, FifoStep, PTL DEF Spec, FifoSpec, Fifo!Spec, Chan
=============================================================================
