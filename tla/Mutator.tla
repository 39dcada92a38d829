------------------------------ MODULE Mutator ------------------------------
(***************************************************************************)
(* The query mutator (dns-query-mutator-1.0): Mutator::start reads DNSMsg *)
(* records, drops those without a query, mutates each remaining query's   *)
(* header bits and EDNS fields by the options given on the command line, *)
(* and writes it out; with --loop it keeps them all and writes them again *)
(* and again.                                                             *)
(*                                                                         *)
(* A query's raw bytes are abstracted to what the mutation touches: the   *)
(* two flag bytes of the DNS header (b2, b3), its EDNS fields, and        *)
(* whether ldns can parse the packet.  The records come from an input    *)
(* file read by InputStream::get, in the text, raw or trace format.       *)
(***************************************************************************)
EXTENDS Integers, SequencesExt, Bitwise

INS == INSTANCE InputStream

CONSTANTS
  Inputs,      \* input files, as [fmt, file] with InputSource's entries
  Configs,     \* command-line option maps: long option name -> [prob, val]
  MaxOut,      \* bound on the messages written in --loop mode
  Empty        \* a record whose raw() is empty

VARIABLES
  input, pos,  \* the input file and the entry ins->get() reads next
  opt,         \* Mutator::opt
  infinite,    \* --loop
  textOut,     \* output format text (else raw)
  warehouse,   \* the records kept for --loop
  wi,          \* the replay loop's index i
  out,         \* write_output calls: [orig, raw, applied, written]
  exited       \* errx ended the mutator

vars == <<input, pos, opt, infinite, textOut, warehouse, wi, out, exited>>

(* The option codes of dns_util.hh.                                        *)
Code == [opcode |-> 1, aa |-> 2, tc |-> 4, rd |-> 8, ra |-> 16, z |-> 32,
         ad |-> 64, cd |-> 128, do |-> 256, udp |-> 512, ercode |-> 1024,
         ver |-> 2048, ednsz |-> 4096]

IsPow2(p) == p > 0 /\ (p & (p - 1)) = 0

(* valid_option(a, down, up): a power of two within [down, up].            *)
ValidOption(a, down, up) == a >= down /\ a <= up /\ IsPow2(a)

IsEdnsPart(p) == ValidOption(Code[p], Code.do, Code.ednsz)
IsHeaderPart(p) == ValidOption(Code[p], Code.opcode, Code.cd)
OneBit == {"aa", "tc", "rd", "ra", "z", "ad", "cd", "do"}

(* rand() % 100 + 1 <= prob over every value rand() can return.          *)
Draws(prob) == {d \in BOOLEAN : \E r \in 1..100 : (r <= prob) = d}

(* With no options mutate_query is not called; Applied is then empty and *)
(* ChangePkt the identity, which is the same.                             *)
(* mutate_query's choice of what to apply: a one-bit part is set to val  *)
(* (as 0/1) when drawn and to its complement otherwise; a multi-bit part *)
(* is set to val when drawn and left out otherwise.                      *)
Applied(o, dc) ==
  LET bit(p) == IF o[p].val > 0 THEN 1 ELSE 0
      parts == {p \in DOMAIN o : p \in OneBit \/ dc[p]}
  IN  [p \in parts |-> IF p \in OneBit
                          THEN IF dc[p] THEN bit(p) ELSE 1 - bit(p)
                          ELSE o[p].val]

(* The ldns wire macros LDNS_*_SET/CLR on flag byte 2 or 3 of the header. *)
SetBits(b, m) == b | m
ClrBits(b, m) == b & (255 - m)
Flag(b, m, v) == IF v = 0 THEN ClrBits(b, m) ELSE SetBits(b, m)

(* change_dns_pkt_header: one part, on the header [b2, b3].  The opcode  *)
(* is shifted into bits 3..6 unmasked and the result stored in a byte.   *)
ChangeHeader(h, p, v) ==
  CASE p = "opcode" -> [h EXCEPT !.b2 = (ClrBits(@, 120) | ((v * 8) % 256))]
    [] p = "aa" -> [h EXCEPT !.b2 = Flag(@, 4, v)]
    [] p = "tc" -> [h EXCEPT !.b2 = Flag(@, 2, v)]
    [] p = "rd" -> [h EXCEPT !.b2 = Flag(@, 1, v)]
    [] p = "ra" -> [h EXCEPT !.b3 = Flag(@, 128, v)]
    [] p = "z"  -> [h EXCEPT !.b3 = Flag(@, 64, v)]
    [] p = "ad" -> [h EXCEPT !.b3 = Flag(@, 32, v)]
    [] p = "cd" -> [h EXCEPT !.b3 = Flag(@, 16, v)]

(* change_dns_pkt_edns: one part, on the parsed packet's EDNS fields.    *)
(* edns-do 0 unsets all of EDNS.                                          *)
ChangeEdns(e, p, v) ==
  CASE p = "do" -> IF v > 0 THEN [e EXCEPT !.do = 1]
                   ELSE [do |-> 0, udp |-> 0, ercode |-> 0, ver |-> 0, ednsz |-> 0]
    [] p = "udp"    -> [e EXCEPT !.udp = v % 65536]
    [] p = "ercode" -> [e EXCEPT !.ercode = v % 256]
    [] p = "ver"    -> [e EXCEPT !.ver = v % 256]
    [] p = "ednsz"  -> [e EXCEPT !.ednsz = v % 65536]

(* change_dns_pkt errx-es when an EDNS part is applied and ldns_wire2pkt *)
(* cannot parse the packet.                                               *)
EdnsParts(a) == {p \in DOMAIN a : IsEdnsPart(p)}
ParseFails(r, a) == EdnsParts(a) # {} /\ ~r.parses

(* ldns_wire2pkt then ldns_pkt2wire: ldns_pkt's header keeps qr, opcode, *)
(* aa, tc, rd, ra, ad, cd and rcode but has no Z flag, so the bytes come *)
(* back with Z (bit 6 of byte 3) cleared.                                 *)
ThroughLdns(h) == [h EXCEPT !.b3 = ClrBits(@, 64)]

(* change_dns_pkt with the applied parts in the unordered_map's order    *)
(* ord: header parts on a copy of the bytes, then, if any EDNS part is   *)
(* present, ldns_wire2pkt of the copy, the EDNS parts, ldns_pkt2wire.    *)
ChangePkt(r, a, ord) ==
  LET hdr == FoldLeft(LAMBDA h, p : IF IsHeaderPart(p) THEN ChangeHeader(h, p, a[p])
                                    ELSE h, r, ord)
  IN  IF EdnsParts(a) = {} THEN hdr
      ELSE [ThroughLdns(hdr) EXCEPT
              !.edns = FoldLeft(LAMBDA e, p : IF IsEdnsPart(p)
                                  THEN ChangeEdns(e, p, a[p]) ELSE e,
                                hdr.edns, ord)]

(* DNS_OPT_MAP of dns_util.cc: a long option's name to its part.          *)
DNS_OPT_MAP ==
  [n \in {"dns-opcode", "dns-aa", "dns-tc", "dns-rd", "dns-ra", "dns-z",
          "dns-ad", "dns-cd", "edns-do", "edns-udp-size",
          "edns-extended-rcode", "edns-version", "edns-z"} |->
     CASE n = "dns-opcode" -> "opcode" [] n = "dns-aa" -> "aa"
       [] n = "dns-tc" -> "tc" [] n = "dns-rd" -> "rd" [] n = "dns-ra" -> "ra"
       [] n = "dns-z" -> "z" [] n = "dns-ad" -> "ad" [] n = "dns-cd" -> "cd"
       [] n = "edns-do" -> "do" [] n = "edns-udp-size" -> "udp"
       [] n = "edns-extended-rcode" -> "ercode" [] n = "edns-version" -> "ver"
       [] n = "edns-z" -> "ednsz"]

(* The key main's getopt switch looks up for option n: every case names  *)
(* its own option, but OPT_EDNS_EXTENDED_RCODE's looks up                 *)
(* "edns-extended-code".                                                  *)
MainKey(n) == IF n = "edns-extended-rcode" THEN "edns-extended-code" ELSE n

(* m[DNS_OPT_MAP[key]]: operator[] of a key the map lacks inserts 0.       *)
OptCode(n) ==
  IF MainKey(n) \in DOMAIN DNS_OPT_MAP THEN Code[DNS_OPT_MAP[MainKey(n)]]
  ELSE 0

(* The Mutator constructor: errx unless every key is a valid_dns_option.  *)
CtorRejects(cli) ==
  \E n \in DOMAIN cli : ~ValidOption(OptCode(n), Code.opcode, Code.ednsz)

(* Mutator::opt, by part, of an accepted option map.                      *)
PartOpts(cli) ==
  [p \in {DNS_OPT_MAP[n] : n \in DOMAIN cli} |->
     cli[CHOOSE n \in DOMAIN cli : DNS_OPT_MAP[n] = p]]

(* main's format checks: it returns for raw -> raw and text/trace -> text,*)
(* so the output is text exactly when the input is raw.                   *)
TextOutput(fmt) == fmt = "raw"

(* The constructor errx-es on an invalid option or builds opt.            *)
Init ==
  /\ input \in Inputs /\ pos = 1
  /\ infinite \in BOOLEAN /\ textOut = TextOutput(input.fmt)
  /\ \E cli \in Configs :
       IF CtorRejects(cli) THEN opt = <<>> /\ exited = TRUE
       ELSE opt = PartOpts(cli) /\ exited = FALSE
  /\ warehouse = <<>> /\ wi = 0 /\ out = <<>>

(* write_output: write_text skips a message dns_msg_str cannot parse.    *)
Written(r) == ~textOut \/ r.parses

Entry(e) == [orig |-> e.orig, raw |-> e.raw, applied |-> e.applied,
             written |-> Written(e.raw)]

(* No OPT record: every EDNS field 0.                                     *)
NoEdns == [do |-> 0, udp |-> 0, ercode |-> 0, ver |-> 0, ednsz |-> 0]

(* What process_line builds: build_dns_pkt_query's query, with RD and CD  *)
(* and no EDNS; build_dns_pkt's header-only packet for "- - -"; nothing   *)
(* when ldns rejects the question.  The source address is not used.      *)
Env ==
  [keys |-> {"src"}, noSrc |-> "", empty |-> Empty, pkts |-> {},
   build |-> [name |-> [b2 |-> 1, b3 |-> 16, edns |-> NoEdns, parses |-> TRUE],
              dash |-> [b2 |-> 0, b3 |-> 0, edns |-> NoEdns, parses |-> TRUE],
              bad  |-> Empty]]

(* One pass of start()'s while loop: ins->get() (NULL ends the loop, an   *)
(* errx or exception inside it the mutator), skip a record with no query, *)
(* mutate_query when options are set, then keep it (--loop) or write it. *)
ProcessRecord ==
  /\ ~exited /\ pos <= Len(input.file)
  /\ \E g \in INS!Get(input.fmt, input.file, pos, Env) :
     /\ pos' = g.next
     /\ \/ /\ g.kind \in {"exit", "abort"}
           /\ exited' = TRUE /\ UNCHANGED <<warehouse, out>>
        \/ /\ g.kind = "eof" \/ (g.kind = "msg" /\ g.raw = Empty)
           /\ UNCHANGED <<warehouse, out, exited>>
        \/ /\ g.kind = "msg" /\ g.raw # Empty
           /\ \E dc \in [DOMAIN opt -> BOOLEAN] :
                /\ \A p \in DOMAIN opt : dc[p] \in Draws(opt[p].prob)
                /\ LET a == Applied(opt, dc) IN
                   \E ord \in SetToSeqs(DOMAIN a) :
                     LET e == [orig |-> g.raw, raw |-> ChangePkt(g.raw, a, ord),
                               applied |-> a]
                     IN  IF ParseFails(g.raw, a)
                         THEN exited' = TRUE /\ UNCHANGED <<warehouse, out>>
                         ELSE /\ UNCHANGED exited
                              /\ IF infinite
                                 THEN /\ warehouse' = Append(warehouse, e)
                                      /\ UNCHANGED out
                                 ELSE /\ out' = Append(out, Entry(e))
                                      /\ UNCHANGED warehouse
  /\ UNCHANGED <<input, opt, infinite, textOut, wi>>

(* The --loop replay: for (i = 0; i < size; i++) { write; if (i ==      *)
(* size-1) i = -1; }  with i unsigned, so -1 + 1 wraps to 0.            *)
NextIndexResetZero(i) == (IF i = Len(warehouse) - 1 THEN 0 ELSE i) + 1

NextIndex(i) == (IF i = Len(warehouse) - 1 THEN -1 ELSE i) + 1

Replay ==
  /\ ~exited /\ infinite /\ pos > Len(input.file)
  /\ wi < Len(warehouse) /\ Len(out) < MaxOut
  /\ out' = Append(out, Entry(warehouse[wi + 1]))
  /\ wi' = NextIndex(wi)
  /\ UNCHANGED <<input, pos, opt, infinite, textOut, warehouse, exited>>

Next == ProcessRecord \/ Replay

Spec == Init /\ [][Next]_vars /\ WF_vars(Next)

(* The header fields as RFC 1035 and RFC 4035 lay them out in bytes 2-3.  *)
Fields(h) ==
  [qr |-> h.b2 \div 128, opcode |-> (h.b2 \div 8) % 16, aa |-> (h.b2 \div 4) % 2,
   tc |-> (h.b2 \div 2) % 2, rd |-> h.b2 % 2, ra |-> h.b3 \div 128,
   z |-> (h.b3 \div 64) % 2, ad |-> (h.b3 \div 32) % 2, cd |-> (h.b3 \div 16) % 2,
   rcode |-> h.b3 % 16]

FitsField(a) == "opcode" \in DOMAIN a => a.opcode < 16

(* main.cc's usage: --dns-X N:X "set X bit to X in N% of the queries".  *)
(* change_dns_pkt and the ldns macros change exactly the header fields   *)
(* mutate_query applied, to the applied values, and no other field: read *)
(* back field by field, each written message's header is its original    *)
(* with the applied fields replaced (for an opcode that fits 4 bits).    *)
HeaderMutationFaithful ==
  \A k \in DOMAIN out :
    LET o == out[k] IN
    FitsField(o.applied) =>
      Fields(o.raw) = [f \in DOMAIN Fields(o.orig) |->
                         IF f \in DOMAIN o.applied THEN o.applied[f]
                         ELSE Fields(o.orig)[f]]

(* The raw packet InputStream makes of an entry: the query process_line  *)
(* builds, the frame's record, the packet's DNS payload.                  *)
EntryRaw(e) ==
  CASE input.fmt = "text"  -> Env.build[e.q]
    [] input.fmt = "raw"   -> e.raw
    [] input.fmt = "trace" -> e.pkt

(* What start() keeps: the written records, or the warehouse in --loop.  *)
Kept == IF infinite THEN warehouse ELSE out

(* start() hands on every query of its input and nothing else: until the *)
(* mutator exits, the records it has written (or kept for --loop) are,   *)
(* in input order, the packets of the entries read so far that the      *)
(* format's reference definition calls queries.  A packet that is too    *)
(* short, a comment, a "- - -" line or an empty frame is skipped.        *)
InputRelayed ==
  ~exited =>
    LET read == SelectSeq(SubSeq(input.file, 1, pos - 1),
                          LAMBDA e : INS!ValidEntry(input.fmt, e, Empty))
    IN  [k \in DOMAIN Kept |-> Kept[k].orig] = [k \in DOMAIN read |-> EntryRaw(read[k])]

(* With --loop, the replay writes the kept records round-robin in input  *)
(* order, each time the same mutated copy, starting again after the last.*)
ReplayInOrder ==
  infinite =>
    \A k \in DOMAIN out :
      out[k] = Entry(warehouse[((k - 1) % Len(warehouse)) + 1])
=============================================================================
