-------------------------------- MODULE Primes --------------------------------
(***************************************************************************)
(* is_prime and next_prime of nt_algodefs.c, which give the hash set and   *)
(* the hash map their numbers of slots.                                    *)
(***************************************************************************)
EXTENDS Integers

IsPrime(n) ==
    \/ n = 2
    \/ n > 2 /\ n % 2 # 0 /\ \A i \in 3 .. n : i * i <= n /\ i % 2 = 1 => n % i # 0

NextPrime(n) ==
    LET from[m \in Nat] == IF IsPrime(m) THEN m ELSE from[m + 1]
    IN  from[n]

=============================================================================
