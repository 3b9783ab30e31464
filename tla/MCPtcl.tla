-------------------------------- MODULE MCPtcl --------------------------------
EXTENDS Ptcl, TLC

(* Bytes that differ from block to block *)
Pattern(n) == [k \in 1 .. n |-> (7 * k + k \div 64) % 256]

(* "abc", and "abcdbcdecdefdefgefghfghighijhijkijkljklmklmnlmnomnopnopq" *)
Abc == <<97, 98, 99>>
Abcdbcde == [k \in 1 .. 56 |-> 97 + (k - 1) \div 4 + ((k - 1) % 4)]

(* Digests of other implementations; the second and third are in FIPS 180. *)
Known ==
    <<>> :> <<218, 57, 163, 238, 94, 107, 75, 13, 50, 85, 191, 239, 149, 96, 24, 144, 175, 216, 7, 9>>
    @@ Abc :> <<169, 153, 62, 54, 71, 6, 129, 106, 186, 62, 37, 113, 120, 80, 194, 108, 156, 208, 216, 157>>
    @@ Abcdbcde :> <<132, 152, 62, 68, 28, 59, 210, 110, 186, 174, 74, 161, 249, 81, 41, 229, 229, 70, 112, 241>>
    @@ Pattern(55) :> <<123, 60, 98, 253, 197, 218, 145, 51, 15, 4, 87, 132, 183, 5, 167, 71, 215, 202, 201, 67>>
    @@ Pattern(64) :> <<233, 102, 85, 31, 23, 52, 123, 50, 31, 22, 37, 49, 157, 192, 244, 59, 162, 59, 102, 116>>
    @@ Pattern(119) :> <<26, 243, 108, 71, 191, 156, 238, 97, 146, 68, 89, 1, 115, 243, 83, 233, 58, 65, 194, 180>>

MCMessage == DOMAIN Known \cup {Pattern(200)}
MCPayload == {<<>>, Abc, Abcdbcde}

(* The frame of a message comes apart as it was put together, and the code *)
(* in it is the SHA-1 of the data as others compute it, so long as the     *)
(* small WordModulus has room for the length.                              *)
FrameRoundTrip ==
    /\ RoundTrip
    /\ pc = "done" /\ message \in DOMAIN Known =>
         digest = [k \in 0 .. 19 |-> Known[message][k + 1]]
=============================================================================
