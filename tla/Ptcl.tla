--------------------------------- MODULE Ptcl ---------------------------------
(***************************************************************************)
(* ntptcl_send and ntptcl_handle of nt_ptcl.c: a message is framed with    *)
(* its length, the SHA-1 of its bytes in hexadecimal and its type, and     *)
(* taken apart where nt_socket.c has received it.  Both hash with Sha1.    *)
(***************************************************************************)
EXTENDS Sha1

CONSTANTS
    Message,   \* the byte strings that are hashed, and
    Payload,   \* those that are sent
    Chunk,     \* how many bytes a caller of SHA1Update gives it at once
    Damaged    \* the offsets in a frame at which a byte may be changed

IntMax == 2147483647     \* SHA1 takes the length as an int

ASSUME PtclAssumption ==
    /\ Message \cup Payload \subseteq Seq(Byte)
    /\ \A m \in Payload : Len(m) <= IntMax

VARIABLES
    phase,     \* "idle", "api", "send", "handle" while it hashes; "wire", "seen"
    sent,      \* [type, data] that ntptcl_send was called with
    frame,     \* the bytes on their way
    damage,    \* where the frame was changed, 0 if nowhere
    seen       \* what ntptcl_handle finds in it

ptcl == <<phase, sent, frame, damage, seen>>
vars == <<sha1, ptcl>>

Type == {"NT_FILE", "NT_STRING", "NT_CMD", "NT_STATUS", "NT_SYNC"}
TypeNumber == [NT_FILE |-> 0, NT_STRING |-> 1, NT_CMD |-> 2, NT_STATUS |-> 3, NT_SYNC |-> 4]

\* NTPTCLIHEAD and NTPTCLITAIL
HeadText == <<110, 116, 32, 104, 101, 97, 100, 32, 100, 97, 116, 97>>
TailText == <<110, 116, 32, 116, 97, 105, 108, 32, 100, 97, 116, 97>>

Zeroes(n) == [k \in 1 .. n |-> 0]
Int4(n) == Reverse(Bytes(n))     \* an int, on a little-endian machine
IntAt(s, o) == s[o + 1] + 256 * s[o + 2] + 65536 * s[o + 3] + 16777216 * s[o + 4]

(* Where the fields are, from the start of struct ntptcli *)
LenAt == 16
CodeAt == 20
CliSize == 64
DataAt == CliSize + 4     \* after struct ntptclii

Nothing == [type |-> "none", data |-> <<>>]

PtclInit ==
    /\ pc = "idle" /\ message = <<>> /\ ctx = Wiped /\ finalcount = <<>>
    /\ digest = NoDigest /\ stream = <<>> /\ blocks = <<>>
    /\ phase = "idle" /\ sent = Nothing /\ frame = <<>> /\ damage = 0 /\ seen = Nothing

(* The twenty bytes with "%02x", and the NUL *)
Digit(d) == IF d < 10 THEN 48 + d ELSE 87 + d
hexresult ==
    [k \in 1 .. 40 |-> Digit(IF k % 2 = 1 THEN digest[k \div 2] \div 16 ELSE digest[k \div 2 - 1] % 16)]
    \o <<0>>

-----------------------------------------------------------------------------
(* A caller of SHA1Init, SHA1Update and SHA1Final *)
Hash(m) ==
    /\ phase = "idle" /\ phase' = "api"
    /\ Start(m)
    /\ UNCHANGED <<sent, frame, damage, seen>>

Send(m, type) ==
    /\ phase = "idle" /\ phase' = "send"
    /\ sent' = [type |-> type, data |-> m]
    /\ Start(m)
    /\ UNCHANGED <<frame, damage, seen>>

Hashing ==
    /\ \/ \E n \in IF phase = "api" THEN Chunk ELSE {1} : Update(n)
       \/ Final \/ Pad \/ Digest
    /\ UNCHANGED ptcl

(* For a file or a sync nothing is made of it. *)
Frame ==
    /\ phase = "send" /\ pc = "done"
    /\ IF sent.type \in {"NT_FILE", "NT_SYNC"}
       THEN phase' = "idle" /\ UNCHANGED frame
       ELSE /\ phase' = "wire"
            /\ frame' = HeadText \o Zeroes(LenAt - Len(HeadText)) \o Int4(Len(sent.data))
                        \o hexresult \o Zeroes(CliSize - CodeAt - 41)
                        \o Int4(TypeNumber[sent.type]) \o sent.data \o TailText \o <<0>>
    /\ UNCHANGED <<sha1, sent, damage, seen>>

(* One byte changes on the way. *)
Damage(o) ==
    /\ phase = "wire" /\ damage = 0
    /\ o \in CodeAt .. CodeAt + 39 \cup CliSize .. DataAt + Len(sent.data) - 1
    /\ damage' = o + 1
    /\ frame' = [frame EXCEPT ![o + 1] = (@ + 1) % 256]
    /\ UNCHANGED <<sha1, phase, sent, seen>>

Handle ==
    /\ phase = "wire" /\ phase' = "handle"
    /\ Start(SubSeq(frame, DataAt + 1, DataAt + IntAt(frame, LenAt)))
    /\ UNCHANGED <<sent, frame, damage, seen>>

(* The code may be another than the one that comes with the data: that is  *)
(* logged, and the message is handled all the same.                        *)
Judge ==
    /\ phase = "handle" /\ pc = "done" /\ phase' = "seen"
    /\ LET tail == SubSeq(frame, DataAt + Len(message) + 1, Len(frame))
           nul == CHOOSE k \in DOMAIN tail :
                      tail[k] = 0 /\ \A i \in 1 .. k - 1 : tail[i] # 0
       IN  seen' = [error |-> hexresult # SubSeq(frame, CodeAt + 1, CodeAt + 41),
                    type |-> IntAt(frame, CliSize),
                    data |-> message,
                    tail |-> SubSeq(tail, 1, nul - 1)]
    /\ UNCHANGED <<sha1, sent, frame, damage>>

Next ==
    \/ \E m \in Message : Hash(m)
    \/ \E m \in Payload, type \in Type : Send(m, type)
    \/ Hashing \/ Frame \/ Handle \/ Judge
    \/ \E o \in Damaged : Damage(o)

Spec == PtclInit /\ [][Next]_vars

-----------------------------------------------------------------------------
(* What the receiver takes out of a frame is what the sender has put in,   *)
(* and the code agrees; a byte of the data or of the code that was changed *)
(* on the way is noticed, a type that was changed is not.                  *)
RoundTrip ==
    phase = "seen" =>
        /\ damage = 0 => seen = [error |-> FALSE, type |-> TypeNumber[sent.type],
                                 data |-> sent.data, tail |-> TailText]
        /\ seen.error <=> damage \in CodeAt + 1 .. CodeAt + 41 \/ damage > DataAt

=============================================================================
