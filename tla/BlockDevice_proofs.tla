-------------------------- MODULE BlockDevice_proofs ------------------------
(***************************************************************************)
(* Proofs about BlockDevice, for any devices, configurations and sizes.    *)
(***************************************************************************)
EXTENDS BlockDevice, TLAPS, WellFoundedInduction

-----------------------------------------------------------------------------
(***************************************************************************)
(* Read-only volumes, and the number of blocks of a partition.             *)
(***************************************************************************)

(* The two properties, and that a configuration has a number of blocks.    *)
AccessInv == ReadOnlyNeverWritten /\ MountsDetectBlocks /\ "count" \in DOMAIN cfg

(* Steps of the life of a volume that pass no access on.                   *)
Quiet == /\ UNCHANGED <<device, conf>>
         /\ io' = io \/ io'.op \notin {"write", "erase"} \/ device.kind = "sdcard"

(* ... and leave the number of blocks to littlefs.                         *)
CountKept ==
  /\ "count" \in DOMAIN cfg'
  /\ device.kind = "partition" =>
       \/ stage' = "formatting"
       \/ cfg'.count = 0
       \/ cfg' = cfg /\ stage # "formatting"

LEMMA QuietKeeps == ASSUME AccessInv, Quiet, CountKept PROVE AccessInv'
  <1>1. ReadOnlyNeverWritten'
    BY DEF AccessInv, Quiet, ReadOnlyNeverWritten
  <1>2. MountsDetectBlocks'
    BY DEF AccessInv, Quiet, CountKept, MountsDetectBlocks
  <1> QED BY <1>1, <1>2 DEF AccessInv, CountKept

LEMMA InitAccess == Init => AccessInv
  BY DEF Init, AccessInv, ReadOnlyNeverWritten, MountsDetectBlocks, NoIo, NoCfg

(* Registration, mount and growth.                                         *)
LEMMA MountKeeps ==
  ASSUME AccessInv,
         \/ Configure \/ Refuse \/ NoMemory \/ Abort
         \/ MountOk \/ GrowOk \/ GrowFails
  PROVE  AccessInv'
  <1>1. Quiet
    BY DEF Quiet, Configure, Accept, Refuse, NoMemory, Abort, MountOk, GrowOk, GrowFails, GoTo
  <1>2. CountKept
    <2>1. CASE Configure
      <3>1. /\ cfg' \in {BdlCfg(device), PartCfg, SdCfg(device)}
            /\ device.kind = "partition" => cfg' = PartCfg
        BY <2>1 DEF Configure, Accept
      <3>2. "count" \in DOMAIN cfg'
        BY <3>1 DEF BdlCfg, PartCfg, SdCfg
      <3> QED BY <3>1, <3>2 DEF PartCfg, CountKept
    <2>2. CASE ~Configure
      BY <2>2 DEF AccessInv, CountKept, Refuse, NoMemory, Abort, MountOk, GrowOk, GrowFails
    <2> QED BY <2>1, <2>2
  <1> QED BY <1>1, <1>2, QuietKeeps

(* A format begins by setting the number of blocks, of a partition too, or *)
(* by erasing an SD card.                                                  *)
LEMMA BeginKeeps ==
  ASSUME AccessInv, NEW after, BeginFormat(after)
  PROVE  AccessInv'
  <1>1. Quiet
    BY DEF Quiet, BeginFormat, GoTo
  <1>2. CountKept
    BY DEF AccessInv, CountKept, BeginFormat, GoTo
  <1> QED BY <1>1, <1>2, QuietKeeps

(* Whatever its outcome, a format gives the number of blocks back.         *)
LEMMA FormatKeeps ==
  ASSUME AccessInv, MountFails \/ FormatVolume \/ FormatOk \/ FormatFails
  PROVE  AccessInv'
  <1>1. CASE \E after : BeginFormat(after)
    BY <1>1, BeginKeeps
  <1>2. CASE MountFails /\ ~\E after : BeginFormat(after)
    <2>1. stage = "mounting" /\ UNCHANGED <<device, conf, cfg, io>>
      BY <1>2 DEF MountFails, GoTo
    <2> QED BY <2>1, QuietKeeps DEF AccessInv, Quiet, CountKept
  <1>3. CASE FormatOk \/ FormatFails
    <2>1. cfg' = FormattedCfg /\ UNCHANGED <<device, conf, io>>
      BY <1>3 DEF FormatOk, FormatFails, GoTo
    <2>2. /\ "count" \in DOMAIN cfg'
          /\ device.kind = "partition" => cfg'.count = 0
      BY <2>1 DEF AccessInv, FormattedCfg
    <2> QED BY <2>1, <2>2, QuietKeeps DEF Quiet, CountKept
  <1> QED BY <1>1, <1>2, <1>3 DEF FormatVolume

(* A hook writes and erases a block device only when neither the volume    *)
(* nor the device is read-only.                                            *)
LEMMA AccessKeeps ==
  ASSUME AccessInv, Read \/ Write \/ Erase \/ Sync \/ Answer
  PROVE  AccessInv'
  <1>1. UNCHANGED <<device, conf, stage, cfg>>
    BY DEF Read, Write, Erase, Sync, Answer
  <1>2. MountsDetectBlocks' /\ "count" \in DOMAIN cfg'
    BY <1>1 DEF AccessInv, MountsDetectBlocks
  <1>3. ReadOnlyNeverWritten'
    <2>1. CASE Read \/ Sync \/ Answer
      <3>1. device.kind = "blockdev" => io'.op \notin {"write", "erase"}
        BY <2>1 DEF Read, Sync, Answer, bdl_read, part_read_mmap, sdmmc_transfer, Pass, NoIo
      <3> QED BY <1>1, <3>1 DEF ReadOnlyNeverWritten
    <2>2. CASE Write \/ Erase
      <3>1. device.kind = "blockdev" => ~conf.readOnly /\ ~device.readOnly
        BY <2>2 DEF Write, Erase, bdl_write, bdl_erase, part_write, part_erase,
                    sdmmc_transfer, sdmmc_erase, BdlWritable
      <3> QED BY <1>1, <3>1 DEF ReadOnlyNeverWritten
    <2> QED BY <2>1, <2>2
  <1> QED BY <1>2, <1>3 DEF AccessInv

LEMMA NextAccess == ASSUME AccessInv, [Next]_vars PROVE AccessInv'
  <1>1. CASE Next
    BY <1>1, MountKeeps, FormatKeeps, AccessKeeps DEF Next
  <1>2. CASE UNCHANGED vars
    BY <1>2 DEF vars, AccessInv, ReadOnlyNeverWritten, MountsDetectBlocks
  <1> QED BY <1>1, <1>2

(* Nothing reaches a block device that writes it when it, or the volume on *)
(* it, is read-only (littlefs_bdl.c), whatever formats and growths run.    *)
THEOREM ReadOnlyStays == Spec => []ReadOnlyNeverWritten
  <1>1. AccessInv => ReadOnlyNeverWritten
    BY DEF AccessInv
  <1> QED BY InitAccess, NextAccess, <1>1, PTL DEF Spec

(* Whatever formats have succeeded or failed before it, a mount of a       *)
(* partition leaves the number of blocks to littlefs (format_from_efs).    *)
THEOREM BlocksAreDetected == Spec => []MountsDetectBlocks
  <1>1. AccessInv => MountsDetectBlocks
    BY DEF AccessInv
  <1> QED BY InitAccess, NextAccess, <1>1, PTL DEF Spec

-----------------------------------------------------------------------------
(***************************************************************************)
(* Divisibility.                                                           *)
(***************************************************************************)

(* Quotients and remainders.                                               *)
LEMMA DivMod ==
  ASSUME NEW a \in Nat, NEW b \in Nat \ {0}
  PROVE  /\ a \div b \in Nat /\ a % b \in Nat /\ a % b \in 0 .. b - 1
         /\ a = b * (a \div b) + (a % b)
  OBVIOUS

(* A number without remainder is its quotient times the divisor.           *)
LEMMA MultipleOf ==
  ASSUME NEW a \in Nat, NEW b \in Nat \ {0}, a % b = 0
  PROVE  a \div b \in Nat /\ a = b * (a \div b)
  OBVIOUS

Divides(d, n) == \E k \in Nat : n = d * k

(* No remainder, and divisibility by a witness.                            *)
LEMMA ModIsDivides ==
  ASSUME NEW a \in Nat, NEW b \in Nat \ {0}
  PROVE  a % b = 0 <=> Divides(b, a)
  <1>1. ASSUME a % b = 0 PROVE Divides(b, a)
    BY <1>1, MultipleOf DEF Divides
  <1>2. ASSUME NEW k \in Nat, a = b * k PROVE a % b = 0
    BY <1>2
  <1> QED BY <1>1, <1>2 DEF Divides

(* Sums, differences, multiples and remainders of what d divides.          *)
LEMMA DividesSum ==
  ASSUME NEW d \in Nat, NEW m \in Nat, NEW n \in Nat, Divides(d, m), Divides(d, n)
  PROVE  Divides(d, m + n)
  <1>1. PICK i \in Nat, j \in Nat : m = d * i /\ n = d * j BY DEF Divides
  <1>2. m + n = d * (i + j) /\ i + j \in Nat BY <1>1
  <1> QED BY <1>2 DEF Divides

LEMMA DividesDifference ==
  ASSUME NEW d \in Nat, NEW m \in Nat, NEW n \in Nat, Divides(d, m), Divides(d, n), n <= m
  PROVE  Divides(d, m - n)
  <1>1. PICK i \in Nat, j \in Nat : m = d * i /\ n = d * j BY DEF Divides
  <1>2. CASE d = 0
    <2>1. m - n = d * 0 BY <1>1, <1>2
    <2> QED BY <2>1 DEF Divides
  <1>3. CASE d # 0
    <2>1. j <= i BY <1>1, <1>3
    <2>2. i - j \in Nat /\ m - n = d * (i - j) BY <1>1, <2>1
    <2> QED BY <2>2 DEF Divides
  <1> QED BY <1>2, <1>3

LEMMA DividesProduct ==
  ASSUME NEW d \in Nat, NEW m \in Nat, NEW k \in Nat, Divides(d, m)
  PROVE  Divides(d, m * k) /\ Divides(d, k * m)
  <1>1. PICK i \in Nat : m = d * i BY DEF Divides
  <1>2. m * k = d * (i * k) /\ k * m = d * (i * k) /\ i * k \in Nat BY <1>1
  <1> QED BY <1>2 DEF Divides

(* What divides, or is divided by, every number.                           *)
LEMMA DividesSelf ==
  ASSUME NEW n \in Nat
  PROVE  Divides(n, n) /\ Divides(n, 0) /\ Divides(1, n)
  <1>1. n = n * 1 /\ 0 = n * 0 /\ n = 1 * n OBVIOUS
  <1> QED BY <1>1 DEF Divides

(* A divisor is not larger than what it divides.                           *)
LEMMA DividesAtMost ==
  ASSUME NEW d \in Nat, NEW n \in Nat \ {0}, Divides(d, n)
  PROVE  d <= n /\ d # 0
  <1>1. PICK k \in Nat : n = d * k BY DEF Divides
  <1>2. k # 0 BY <1>1
  <1> QED BY <1>1, <1>2

LEMMA DividesRemainder ==
  ASSUME NEW d \in Nat, NEW a \in Nat, NEW b \in Nat \ {0}, Divides(d, b)
  PROVE  Divides(d, a % b) <=> Divides(d, a)
  <1> DEFINE q == a \div b  r == a % b
  <1>1. q \in Nat /\ r \in Nat /\ a = b * q + r
    BY DivMod, Zenon
  <1> HIDE DEF q, r
  <1>a. b * q \in Nat BY <1>1
  <1>2. Divides(d, b * q) BY <1>1, <1>a, DividesProduct
  <1>3. ASSUME Divides(d, r) PROVE Divides(d, a)
    BY <1>1, <1>a, <1>2, <1>3, DividesSum
  <1>4. ASSUME Divides(d, a) PROVE Divides(d, r)
    <2>1. b * q <= a /\ r = a - b * q BY <1>1, <1>a
    <2> QED BY <1>1, <1>a, <1>2, <1>4, <2>1, DividesDifference
  <1> QED BY <1>3, <1>4 DEF r

(* Divisibility is antisymmetric and transitive.                           *)
LEMMA DividesEachOther ==
  ASSUME NEW d \in Nat, NEW e \in Nat, Divides(d, e), Divides(e, d)
  PROVE  d = e
  <1>1. CASE d = 0 \/ e = 0
    <2>1. ASSUME NEW n \in Nat, Divides(0, n) PROVE n = 0
      BY <2>1 DEF Divides
    <2> QED BY <1>1, <2>1
  <1>2. CASE d # 0 /\ e # 0
    BY <1>2, DividesAtMost
  <1> QED BY <1>1, <1>2

-----------------------------------------------------------------------------
(***************************************************************************)
(* What gcd computes.  It is defined by recursion; induction over its      *)
(* second argument is a choice of the least one for which a claim failed.  *)
(***************************************************************************)

(* g is the greatest common divisor of a and b, and stays it when both are *)
(* multiplied.                                                             *)
IsGcd(g, a, b) ==
  /\ Divides(g, a) /\ Divides(g, b)
  /\ \A n, d \in Nat : Divides(d, n * a) /\ Divides(d, n * b) => Divides(d, n * g)

(* A pair of numbers has one such divisor.                                 *)
LEMMA GcdUnique ==
  ASSUME NEW a \in Nat, NEW b \in Nat, NEW g \in Nat, NEW h \in Nat, IsGcd(g, a, b), IsGcd(h, a, b)
  PROVE  g = h
  <1>1. 1 * a = a /\ 1 * b = b /\ 1 * g = g /\ 1 * h = h OBVIOUS
  <1>2. Divides(g, h)
    <2>1. Divides(g, 1 * a) /\ Divides(g, 1 * b) => Divides(g, 1 * h) BY DEF IsGcd
    <2> QED BY <1>1, <2>1 DEF IsGcd
  <1>3. Divides(h, g)
    <2>1. Divides(h, 1 * a) /\ Divides(h, 1 * b) => Divides(h, 1 * g) BY DEF IsGcd
    <2> QED BY <1>1, <2>1 DEF IsGcd
  <1> QED BY <1>2, <1>3, DividesEachOther

(* The step of Euclid, gcd(a, b) = gcd(b, a % b).                          *)
LEMMA GcdStep ==
  ASSUME NEW a \in Nat, NEW b \in Nat \ {0}, NEW g \in Nat, IsGcd(g, b, a % b)
  PROVE  IsGcd(g, a, b)
  <1>1. Divides(g, a) /\ Divides(g, b)
    BY DividesRemainder DEF IsGcd
  <1>2. ASSUME NEW n \in Nat, NEW d \in Nat, Divides(d, n * a), Divides(d, n * b)
        PROVE  Divides(d, n * g)
    <2> DEFINE q == a \div b  r == a % b
    <2>1. q \in Nat /\ r \in Nat /\ a = b * q + r
      BY DivMod, Zenon
    <2> HIDE DEF q, r
    <2>2. n * a \in Nat /\ n * b \in Nat /\ (n * b) * q \in Nat
      BY <2>1
    <2>3. Divides(d, (n * b) * q)
      BY <1>2, <2>1, <2>2, DividesProduct
    <2>4. n * r = n * a - (n * b) * q /\ n * r \in Nat
      BY <2>1, <2>2
    <2>5. (n * b) * q <= n * a
      BY <2>2, <2>4
    <2>6. Divides(d, n * r)
      BY <1>2, <2>2, <2>3, <2>4, <2>5, DividesDifference
    <2> QED BY <1>2, <2>1, <2>6 DEF IsGcd, r
  <1> QED BY <1>1, <1>2 DEF IsGcd

(* Where the recursion ends.                                               *)
LEMMA GcdOfZero ==
  ASSUME NEW a \in Nat
  PROVE  IsGcd(a, a, 0)
  BY DividesSelf DEF IsGcd

(* A set of naturals that has an element has a least one.                  *)
LEMMA LeastNatural ==
  ASSUME NEW S \in SUBSET Nat, S # {}
  PROVE  \E n \in S : \A m \in 0 .. n - 1 : m \notin S
  <1>1. \E x \in S : \A y \in S : ~ (<<y, x>> \in OpToRel(<, Nat))
    BY WFMin, NatLessThanWellFounded
  <1>2. PICK x \in S : \A y \in S : ~ (y < x)
    BY <1>1 DEF OpToRel
  <1> QED BY <1>2

(* By the least second argument for which there was none.                  *)
LEMMA GcdExists ==
  ASSUME NEW a \in Nat, NEW b \in Nat
  PROVE  \E g \in Nat : IsGcd(g, a, b)
  <1> DEFINE Bad == {n \in Nat : \E m \in Nat : ~ \E g \in Nat : IsGcd(g, m, n)}
  <1>1. ASSUME Bad # {} PROVE FALSE
    <2>1. PICK n \in Bad : \A m \in 0 .. n - 1 : m \notin Bad
      BY <1>1, LeastNatural
    <2> HIDE DEF Bad
    <2>2. PICK m \in Nat : n \in Nat /\ ~ \E g \in Nat : IsGcd(g, m, n)
      BY <2>1 DEF Bad
    <2>3. n # 0
      BY <2>2, GcdOfZero
    <2>4. m % n \in 0 .. n - 1
      BY <2>2, <2>3, DivMod
    <2>5. PICK g \in Nat : IsGcd(g, n, m % n)
      BY <2>1, <2>2, <2>4 DEF Bad
    <2> QED BY <2>2, <2>3, <2>5, GcdStep
  <1> QED BY <1>1

(* The recursive definition of gcd has a solution, so it may be unfolded:  *)
(* the function that chooses the divisor solves it.                        *)
LEMMA GcdDef ==
  \A p \in Nat \X Nat :
    gcd[p] = IF p[2] = 0 THEN p[1] ELSE gcd[<<p[2], p[1] % p[2]>>]
  <1> DEFINE GC(p) == CHOOSE g \in Nat : IsGcd(g, p[1], p[2])
             f == [p \in Nat \X Nat |-> GC(p)]
  <1>1. ASSUME NEW a \in Nat, NEW b \in Nat
        PROVE  f[<<a, b>>] \in Nat /\ IsGcd(f[<<a, b>>], a, b)
    BY GcdExists
  <1> HIDE DEF f
  <1>2. ASSUME NEW p \in Nat \X Nat
        PROVE  f[p] = IF p[2] = 0 THEN p[1] ELSE f[<<p[2], p[1] % p[2]>>]
    <2>1. p[1] \in Nat /\ p[2] \in Nat /\ p = <<p[1], p[2]>>
      OBVIOUS
    <2>2. CASE p[2] = 0
      BY <1>1, <2>1, <2>2, GcdOfZero, GcdUnique
    <2>3. CASE p[2] # 0
      <3>1. p[1] % p[2] \in Nat
        BY <2>1, <2>3, DivMod
      <3>2. IsGcd(f[<<p[2], p[1] % p[2]>>], p[1], p[2]) /\ f[<<p[2], p[1] % p[2]>>] \in Nat
        BY <1>1, <2>1, <2>3, <3>1, GcdStep
      <3>3. IsGcd(f[p], p[1], p[2]) /\ f[p] \in Nat
        BY <1>1, <2>1
      <3> QED BY <2>1, <2>3, <3>2, <3>3, GcdUnique
    <2> QED BY <2>2, <2>3
  <1>3. f = [p \in Nat \X Nat |-> IF p[2] = 0 THEN p[1] ELSE f[<<p[2], p[1] % p[2]>>]]
    BY <1>2 DEF f
  <1>4. gcd = [p \in Nat \X Nat |-> IF p[2] = 0 THEN p[1] ELSE gcd[<<p[2], p[1] % p[2]>>]]
    BY <1>3 DEF gcd
  <1> QED BY <1>4

(* What gcd computes, by the least second argument for which it did not.   *)
LEMMA GcdIsGcd ==
  ASSUME NEW a \in Nat, NEW b \in Nat
  PROVE  gcd[<<a, b>>] \in Nat /\ IsGcd(gcd[<<a, b>>], a, b)
  <1> DEFINE Right(m, n) == gcd[<<m, n>>] \in Nat /\ IsGcd(gcd[<<m, n>>], m, n)
             Bad == {n \in Nat : \E m \in Nat : ~ Right(m, n)}
  <1>1. ASSUME Bad # {} PROVE FALSE
    <2>1. PICK n \in Bad : \A m \in 0 .. n - 1 : m \notin Bad
      BY <1>1, LeastNatural
    <2> HIDE DEF Bad
    <2>2. PICK m \in Nat : n \in Nat /\ ~ Right(m, n)
      BY <2>1 DEF Bad
    <2>3. <<m, n>> \in Nat \X Nat
      BY <2>2
    <2>4. gcd[<<m, n>>] = IF n = 0 THEN m ELSE gcd[<<n, m % n>>]
      BY <2>3, GcdDef
    <2>5. n # 0
      BY <2>2, <2>4, GcdOfZero
    <2>6. m % n \in 0 .. n - 1
      BY <2>2, <2>5, DivMod
    <2>7. m % n \in Nat /\ m % n \notin Bad
      BY <2>1, <2>6
    <2>8. Right(n, m % n)
      BY <2>2, <2>7, Zenon DEF Bad
    <2> QED BY <2>2, <2>4, <2>5, <2>8, GcdStep
  <1> QED BY <1>1

-----------------------------------------------------------------------------
(***************************************************************************)
(* The geometry of a block device.                                         *)
(***************************************************************************)

(* Two sizes as multiples of their greatest common divisor.                *)
LEMMA GcdOfSizes ==
  ASSUME NEW a \in Nat \ {0}, NEW b \in Nat \ {0}
  PROVE  \E g, i, j \in Nat \ {0} : /\ g = gcd[<<a, b>>] /\ IsGcd(g, a, b)
                                    /\ a = g * i /\ b = g * j /\ a \div g = i
  <1> DEFINE g == gcd[<<a, b>>]
  <1>1. g \in Nat /\ IsGcd(g, a, b)
    BY GcdIsGcd
  <1> HIDE DEF g
  <1>2. PICK i \in Nat, j \in Nat : a = g * i /\ b = g * j
    BY <1>1 DEF IsGcd, Divides
  <1>3. g # 0 /\ i # 0 /\ j # 0
    BY <1>1, <1>2
  <1>4. a \div g = i
    BY <1>1, <1>2, <1>3
  <1> QED BY <1>1, <1>2, <1>3, <1>4 DEF g

(* The arithmetic of products that the provers need in one step.           *)
LEMMA MultiplyInAnyOrder ==
  ASSUME NEW x \in Nat, NEW y \in Nat, NEW z \in Nat
  PROVE  (x * y) * z = (x * z) * y /\ (x * y) * z = x * (y * z) /\ x * y = y * x
  OBVIOUS

LEMMA CancelFactor ==
  ASSUME NEW x \in Nat \ {0}, NEW y \in Nat, NEW z \in Nat, x * y = x * z
  PROVE  y = z
  OBVIOUS

(* The unit of lcm_size and of esp_littlefs_bdl_pick_cache_size is the     *)
(* least common multiple: it divides every common multiple.                *)
LEMMA CommonMultiple ==
  ASSUME NEW a \in Nat \ {0}, NEW b \in Nat \ {0}
  PROVE  LET unit == (a \div gcd[<<a, b>>]) * b IN
         /\ unit \in Nat \ {0}
         /\ Divides(a, unit) /\ Divides(b, unit)
         /\ \A n \in Nat : Divides(a, n) /\ Divides(b, n) => Divides(unit, n)
  <1>1. PICK g \in Nat \ {0}, i \in Nat \ {0}, j \in Nat \ {0} :
         /\ g = gcd[<<a, b>>] /\ IsGcd(g, a, b)
         /\ a = g * i /\ b = g * j /\ a \div g = i
    BY GcdOfSizes
  <1> DEFINE unit == i * b
  <1>2. unit \in Nat \ {0} /\ unit = b * i
    OBVIOUS
  <1>3. unit = a * j
    BY <1>1, MultiplyInAnyOrder
  <1>4. a * b = g * unit
    BY <1>1, MultiplyInAnyOrder
  <1> HIDE DEF unit
  <1>5. ASSUME NEW n \in Nat, Divides(a, n), Divides(b, n)
        PROVE  Divides(unit, n)
    <2>1. PICK x \in Nat, y \in Nat : n = a * x /\ n = b * y
      BY <1>5 DEF Divides
    <2>2. a * b \in Nat /\ n * a \in Nat /\ n * b \in Nat
      OBVIOUS
    <2>3. n * b = (a * b) * x
      BY <2>1, MultiplyInAnyOrder
    <2>4. n * a = (a * b) * y
      BY <2>1, MultiplyInAnyOrder
    <2>5. Divides(a * b, n * a) /\ Divides(a * b, n * b)
      BY <2>3, <2>4 DEF Divides
    <2>6. Divides(a * b, n * g)
      BY <1>1, <2>2, <2>5 DEF IsGcd
    <2>7. PICK z \in Nat : n * g = (a * b) * z
      BY <2>6 DEF Divides
    <2>8. unit * z \in Nat
      BY <1>2
    <2>9. g * n = g * (unit * z)
      BY <1>2, <1>4, <2>7, MultiplyInAnyOrder
    <2>10. n = unit * z
      BY <2>8, <2>9, CancelFactor
    <2> QED BY <2>10 DEF Divides
  <1> QED BY <1>1, <1>2, <1>3, <1>5 DEF Divides, unit

(* Rounding down to a multiple of a unit.                                  *)
LEMMA RoundDown ==
  ASSUME NEW most \in Nat, NEW unit \in Nat \ {0}
  PROVE  /\ (most \div unit) * unit \in Nat /\ (most \div unit) * unit <= most
         /\ Divides(unit, (most \div unit) * unit)
  <1> DEFINE q == most \div unit
  <1>1. q \in Nat /\ unit * q <= most /\ q * unit = unit * q
    OBVIOUS
  <1> HIDE DEF q
  <1>2. q * unit \in Nat
    BY <1>1
  <1> QED BY <1>1, <1>2 DEF Divides, q

LEMMA DividesTransitive ==
  ASSUME NEW d \in Nat, NEW m \in Nat, NEW n \in Nat, Divides(d, m), Divides(m, n)
  PROVE  Divides(d, n)
  <1>1. PICK k \in Nat : n = m * k BY DEF Divides
  <1> QED BY <1>1, DividesProduct

(* The cache: a common multiple of the read and program sizes that is no   *)
(* larger than a block and the buffer (esp_littlefs_bdl_pick_cache_size).  *)
LEMMA CacheSizeFits ==
  ASSUME NEW block \in Nat, NEW read \in Nat \ {0}, NEW prog \in Nat \ {0}
  PROVE  LET cache == CacheSize(block, read, prog) IN
         /\ cache \in Nat /\ cache <= CACHE_SIZE /\ cache <= block
         /\ cache % read = 0 /\ cache % prog = 0
  <1> DEFINE unit == (read \div gcd[<<read, prog>>]) * prog
             most == IF CACHE_SIZE > block THEN block ELSE CACHE_SIZE
             cache == (most \div unit) * unit
  <1>1. unit \in Nat \ {0} /\ Divides(read, unit) /\ Divides(prog, unit)
    BY CommonMultiple
  <1>2. most \in Nat /\ most <= CACHE_SIZE /\ most <= block /\ CACHE_SIZE \in Nat
    BY BlockDeviceAssumption DEF Sizes
  <1> HIDE DEF unit, most
  <1>3. cache \in Nat /\ cache <= most /\ Divides(unit, cache)
    BY <1>1, <1>2, RoundDown
  <1> HIDE DEF cache
  <1>4. Divides(read, cache) /\ Divides(prog, cache)
    BY <1>1, <1>3, DividesTransitive
  <1>5. cache % read = 0 /\ cache % prog = 0
    BY <1>3, <1>4, ModIsDivides
  <1>6. cache \in Nat /\ cache <= CACHE_SIZE /\ cache <= block
    BY <1>2, <1>3
  <1> QED BY <1>5, <1>6 DEF CacheSize, cache, unit, most

(* A recommended size is taken only if it consists of whole units.         *)
LEMMA PreferredFits ==
  ASSUME NEW recommended \in Sizes, NEW size \in Sizes \ {0}
  PROVE  /\ Preferred(recommended, size) \in Sizes \ {0}
         /\ Preferred(recommended, size) % size = 0
  BY BlockDeviceAssumption DEF Preferred, Sizes

(* A unit below the minimum of littlefs is raised to its first multiple    *)
(* that is not.                                                            *)
LEMMA RaisedUnit ==
  ASSUME NEW unit \in Nat, LogicalBlock(unit) # unit
  PROVE  \E c \in Nat : /\ LogicalBlock(unit) = unit * c
                        /\ unit # 0 /\ unit < LFS_MIN_BLOCK_SIZE
                        /\ unit * c < LFS_MIN_BLOCK_SIZE + unit
                        /\ \A z \in Nat : unit * z >= LFS_MIN_BLOCK_SIZE => z >= c
  <1>1. /\ unit # 0 /\ unit < LFS_MIN_BLOCK_SIZE /\ LFS_MIN_BLOCK_SIZE \in Nat
        /\ LogicalBlock(unit) = unit * ((LFS_MIN_BLOCK_SIZE + unit - 1) \div unit)
    BY BlockDeviceAssumption DEF LogicalBlock, Sizes
  <1> DEFINE m == LFS_MIN_BLOCK_SIZE + unit - 1  c == m \div unit
  <1>2. m \in Nat
    BY <1>1
  <1>3. c \in Nat /\ unit * c <= m /\ m < unit * (c + 1)
    BY <1>1, <1>2
  <1>4. LogicalBlock(unit) = unit * c
    BY <1>1
  <1> HIDE DEF c
  <1>5. unit * c < LFS_MIN_BLOCK_SIZE + unit
    BY <1>1, <1>3
  <1>6. ASSUME NEW z \in Nat, unit * z >= LFS_MIN_BLOCK_SIZE, z < c PROVE FALSE
    <2>1. unit * z + unit <= unit * c
      BY <1>1, <1>3, <1>6
    <2>2. unit * z \in Nat /\ unit * c \in Nat
      BY <1>3
    <2> QED BY <2>1, <2>2, <1>1, <1>5, <1>6
  <1> QED BY <1>1, <1>3, <1>4, <1>5, <1>6

(* The logical block.  A least common multiple that does not fit a word is *)
(* reduced to a number that no longer is a common multiple, and the checks *)
(* of esp_littlefs_init_blockdev refuse it.                                *)
LEMMA LogicalBlockFits ==
  ASSUME NEW d \in Device, UnitsOK(d), BlockOK(d), ~Classic(d)
  PROVE  /\ BlockSize(d) \in Sizes
         /\ \A n \in LFS_MIN_BLOCK_SIZE .. BlockSize(d) :
              (n % ReadSize(d) = 0 /\ n % WriteSize(d) = 0) <=> n = BlockSize(d)
  <1> DEFINE r == ReadSize(d)  w == WriteSize(d)  b == BlockSize(d)
             L == (r \div gcd[<<r, w>>]) * w
             u == L % WORD
  <1>0. /\ LFS_MIN_BLOCK_SIZE \in Nat \ {0} /\ WORD \in Nat \ {0}
        /\ 2 * LFS_MIN_BLOCK_SIZE <= WORD
    BY BlockDeviceAssumption DEF Sizes
  <1>1. r \in Sizes \ {0} /\ w \in Sizes \ {0}
    BY PreferredFits DEF Device, UnitsOK, ReadSize, WriteSize
  <1>a. r \in Nat \ {0} /\ w \in Nat \ {0}
    BY <1>0, <1>1 DEF Sizes
  <1>2. b = LogicalBlock(u) /\ b # 0 /\ b % r = 0 /\ b % w = 0
    BY <1>a DEF BlockSize, lcm_size, BlockOK
  <1> HIDE DEF r, w, b
  <1>3. /\ L \in Nat \ {0}
        /\ \A n \in Nat : Divides(r, n) /\ Divides(w, n) => Divides(L, n)
    BY <1>a, CommonMultiple
  <1> HIDE DEF L
  <1>4. u \in Nat /\ u < WORD /\ (L < WORD => u = L)
    BY <1>0, <1>3
  <1> HIDE DEF u
  <1>5. b \in Nat /\ b < WORD
    <2>1. CASE LogicalBlock(u) # u
      <3>1. PICK c \in Nat : b = u * c /\ u < LFS_MIN_BLOCK_SIZE /\ b < LFS_MIN_BLOCK_SIZE + u
        BY <1>2, <1>4, <2>1, RaisedUnit
      <3>2. u * c \in Nat BY <1>4
      <3> QED BY <1>0, <1>4, <3>1, <3>2
    <2> QED BY <1>2, <1>4, <2>1
  <1>6. ASSUME NEW n \in Nat, n # 0, n % r = 0, n % w = 0
        PROVE  Divides(L, n) /\ L <= n
    BY <1>a, <1>3, <1>6, ModIsDivides, DividesAtMost
  <1>7. u = L
    BY <1>2, <1>4, <1>5, <1>6, <1>0, <1>3
  <1>8. ASSUME NEW n \in LFS_MIN_BLOCK_SIZE .. b, n % r = 0, n % w = 0
        PROVE  n = b
    <2>1. n \in Nat /\ n # 0 /\ n <= b /\ n >= LFS_MIN_BLOCK_SIZE
      BY <1>0, <1>5
    <2>2. L <= n /\ Divides(L, n)
      BY <1>6, <1>8, <2>1
    <2>3. CASE LogicalBlock(u) = u
      BY <1>2, <1>3, <1>7, <2>1, <2>2, <2>3
    <2>4. CASE LogicalBlock(u) # u
      <3>1. PICK c \in Nat : b = L * c /\ \A z \in Nat : L * z >= LFS_MIN_BLOCK_SIZE => z >= c
        BY <1>2, <1>4, <1>7, <2>4, RaisedUnit
      <3>2. PICK z \in Nat : n = L * z
        BY <2>2 DEF Divides
      <3>3. z >= c
        BY <2>1, <3>1, <3>2
      <3>4. L * z >= L * c
        BY <1>3, <3>3
      <3> QED BY <1>5, <2>1, <3>1, <3>2, <3>4
    <2> QED BY <2>3, <2>4
  <1> QED BY <1>2, <1>5, <1>8, <1>0 DEF r, w, b, Sizes

-----------------------------------------------------------------------------
(***************************************************************************)
(* The configuration through the life of a volume: the inductive invariant *)
(* says which one each device has.                                         *)
(***************************************************************************)

Stages == {"none", "mounting", "growing", "formatting", "mounted", "unmounted", "failed", "aborted"}

(* Where a volume is, and what a format goes on with.                      *)
LifeOK ==
  /\ device \in Devices /\ conf \in Confs
  /\ stage \in Stages /\ resume \in {"none", "init", "remount", "nothing"}
  /\ resume # "none" => stage \in {"formatting", "mounting"}
  /\ resume = "init" => conf.format /\ conf.mount
  /\ stage = "formatting" => resume # "none"
  /\ stage = "mounting" /\ resume = "none" => conf.mount

(* The checks of registration that a block device has passed.              *)
Accepted(d, c) == Usable(d, c) /\ BdlCfg(d).cache # 0 /\ CacheAssert(BdlCfg(d))

(* A partition has the number of its blocks while it is formatted.         *)
PartBlocks(d) == {0, (d.disk \div BLOCK_SIZE) % WORD}

(* The configuration that a device has once it is accepted.                *)
CfgFor(k) ==
  \/ device.kind = "blockdev" /\ Accepted(device, conf) /\ k = BdlCfg(device)
  \/ device.kind = "partition" /\ \E n \in PartBlocks(device) : k = [PartCfg EXCEPT !.count = n]
  \/ device.kind = "sdcard" /\ k = SdCfg(device)

CfgOK ==
  \/ cfg = NoCfg /\ stage \in {"none", "failed", "aborted"}
  \/ CfgFor(cfg) /\ stage \notin {"none", "aborted"}

(* Every step keeps these.                                                 *)
LEMMA LifeKept ==
  ASSUME LifeOK, [Next]_vars
  PROVE  LifeOK'
  <1> USE DEF LifeOK, Stages
  <1>1. CASE Configure
    BY <1>1 DEF Configure, Accept, GoTo
  <1>2. CASE Refuse \/ NoMemory \/ Abort \/ GrowOk \/ GrowFails
    BY <1>2 DEF Refuse, NoMemory, Abort, GrowOk, GrowFails, GoTo
  <1>3. CASE MountOk
    BY <1>3 DEF MountOk, GoTo
  <1>4. CASE MountFails
    BY <1>4 DEF MountFails, BeginFormat, GoTo
  <1>5. CASE FormatVolume
    BY <1>5 DEF FormatVolume, BeginFormat, GoTo
  <1>6. CASE FormatOk \/ FormatFails
    BY <1>6 DEF FormatOk, FormatFails, GoTo
  <1>7. CASE Read \/ Write \/ Erase \/ Sync \/ Answer
    BY <1>7 DEF Read, Write, Erase, Sync, Answer
  <1>8. CASE UNCHANGED vars
    BY <1>8 DEF vars
  <1> QED BY <1>1, <1>2, <1>3, <1>4, <1>5, <1>6, <1>7, <1>8 DEF Next

(* A format sets the number of blocks of the configuration ...             *)
LEMMA BeginCfg ==
  ASSUME CfgFor(cfg), device \in Devices
  PROVE  device.kind # "sdcard" => CfgFor([cfg EXCEPT !.count = (device.disk \div cfg.block) % WORD])
  <1>1. CASE device.kind = "blockdev"
    BY <1>1 DEF CfgFor, BdlCfg
  <1>2. CASE device.kind = "partition"
    BY <1>2 DEF CfgFor, PartCfg, PartBlocks
  <1>3. device.kind \in {"blockdev", "partition", "sdcard"}
    BY BlockDeviceAssumption DEF Device
  <1> QED BY <1>1, <1>2, <1>3

(* ... and takes it back.                                                  *)
LEMMA EndCfg ==
  ASSUME CfgFor(cfg), device \in Devices
  PROVE  CfgFor(FormattedCfg)
  BY DEF CfgFor, FormattedCfg, PartCfg, PartBlocks

(* What registration configures.                                           *)
LEMMA FirstCfg ==
  ASSUME Configure
  PROVE  CfgFor(cfg') /\ stage' # "none" /\ stage' # "aborted" /\ UNCHANGED <<device, conf>>
  <1>1. stage' # "none" /\ stage' # "aborted" /\ UNCHANGED <<device, conf>>
    BY DEF Configure, Accept, GoTo
  <1>2. CASE device.kind = "blockdev"
    <2>1. Accepted(device, conf) /\ cfg' = BdlCfg(device)
      BY <1>2 DEF Configure, Accept, Accepted
    <2> QED BY <1>1, <1>2, <2>1 DEF CfgFor
  <1>3. CASE device.kind = "partition"
    <2>1. cfg' = PartCfg /\ PartCfg = [PartCfg EXCEPT !.count = 0]
      BY <1>3 DEF Configure, Accept, PartCfg
    <2> QED BY <1>1, <1>3, <2>1 DEF CfgFor, PartBlocks
  <1>4. CASE device.kind = "sdcard"
    <2>1. cfg' = SdCfg(device)
      BY <1>4 DEF Configure, Accept
    <2> QED BY <1>1, <1>4, <2>1 DEF CfgFor
  <1>5. device.kind \in {"blockdev", "partition", "sdcard"}
    BY DEF Configure
  <1> QED BY <1>1, <1>2, <1>3, <1>4, <1>5

(* The configurations a device may have do not change.                     *)
LEMMA CfgMoves ==
  ASSUME UNCHANGED <<device, conf>>, CfgFor(cfg') PROVE CfgFor(cfg)'
  BY DEF CfgFor

(* Every step keeps the configuration one of the device.                   *)
LEMMA CfgKept ==
  ASSUME LifeOK, CfgOK, [Next]_vars
  PROVE  CfgOK'
  <1>1. CASE Configure
    <2>1. CfgFor(cfg)'
      BY <1>1, FirstCfg, CfgMoves
    <2> QED BY <1>1, <2>1, FirstCfg DEF CfgOK
  <1>2. CASE Refuse \/ NoMemory \/ Abort
    <2>1. UNCHANGED cfg /\ stage' \in {"failed", "aborted"} /\ cfg = NoCfg
      BY <1>2 DEF Refuse, NoMemory, Abort, GoTo, CfgOK
    <2> QED BY <2>1 DEF CfgOK
  <1>3. ASSUME /\ stage \in {"mounting", "growing", "formatting", "mounted", "unmounted"}
               /\ stage' \notin {"none", "aborted"}
               /\ UNCHANGED <<device, conf>>
               /\ \/ cfg' = cfg
                  \/ cfg' = FormattedCfg
                  \/ /\ device.kind # "sdcard"
                     /\ cfg' = [cfg EXCEPT !.count = (device.disk \div cfg.block) % WORD]
        PROVE  CfgOK'
    <2>1. CfgFor(cfg)
      BY <1>3 DEF CfgOK
    <2>2. CfgFor(cfg')
      BY <1>3, <2>1, BeginCfg, EndCfg DEF LifeOK
    <2>3. CfgFor(cfg)'
      BY <1>3, <2>2, CfgMoves
    <2> QED BY <1>3, <2>3 DEF CfgOK
  <1>4. ASSUME NEW after, BeginFormat(after), stage \in {"mounting", "mounted", "unmounted"}
        PROVE  CfgOK'
    BY <1>3, <1>4 DEF BeginFormat, GoTo
  <1>5. CASE MountOk \/ GrowOk \/ GrowFails \/ FormatOk \/ FormatFails
    BY <1>3, <1>5 DEF MountOk, GrowOk, GrowFails, FormatOk, FormatFails, GoTo
  <1>6. CASE MountFails
    BY <1>3, <1>4, <1>6 DEF MountFails, GoTo
  <1>7. CASE FormatVolume
    BY <1>4, <1>7 DEF FormatVolume
  <1>8. CASE Read \/ Write \/ Erase \/ Sync \/ Answer \/ UNCHANGED vars
    <2>1. UNCHANGED <<device, conf, stage, cfg>>
      BY <1>8 DEF Read, Write, Erase, Sync, Answer, vars
    <2> QED BY <2>1 DEF CfgOK, CfgFor
  <1> QED BY <1>1, <1>2, <1>5, <1>6, <1>7, <1>8 DEF Next

(* Sizes are naturals, and what a word holds of a natural is a size.       *)
LEMMA SizesAreNats ==
  /\ Sizes \subseteq Nat /\ 0 \in Sizes /\ WORD \in Nat \ {0}
  /\ \A n \in Nat : n % WORD \in Sizes /\ n % WORD <= n /\ (n < WORD => n \in Sizes)
  /\ {CACHE_SIZE, READ_SIZE, WRITE_SIZE, BLOCK_SIZE, LFS_MIN_BLOCK_SIZE} \subseteq Nat \ {0}
  BY BlockDeviceAssumption DEF Sizes

(* The sizes of a block device that passes the checks.                     *)
LEMMA BlockSizeFits ==
  ASSUME NEW d \in Device, UnitsOK(d), BlockOK(d)
  PROVE  /\ ReadSize(d) \in Sizes \ {0} /\ ReadSize(d) % d.read = 0
         /\ WriteSize(d) \in Sizes \ {0} /\ WriteSize(d) % d.write = 0
         /\ BlockSize(d) \in Sizes \ {0}
         /\ BlockSize(d) % ReadSize(d) = 0 /\ BlockSize(d) % WriteSize(d) = 0
  <1>1. d.read \in Sizes \ {0} /\ d.write \in Sizes \ {0} /\ d.recRead \in Sizes /\ d.recWrite \in Sizes
    BY DEF Device, UnitsOK
  <1>2. /\ ReadSize(d) \in Sizes \ {0} /\ ReadSize(d) % d.read = 0
        /\ WriteSize(d) \in Sizes \ {0} /\ WriteSize(d) % d.write = 0
    BY <1>1, PreferredFits DEF ReadSize, WriteSize
  <1>3. BlockSize(d) \in Sizes
    <2>1. CASE Classic(d)
      <3>1. d.recErase \in Sizes /\ d.erase \in Sizes \ {0}
        BY <2>1 DEF Device, UnitsOK
      <3> QED BY <2>1, <3>1, PreferredFits DEF BlockSize
    <2>2. CASE ~Classic(d)
      BY <2>2, LogicalBlockFits
    <2> QED BY <2>1, <2>2
  <1>4. BlockSize(d) >= LFS_MIN_BLOCK_SIZE /\ BlockSize(d) % ReadSize(d) = 0 /\ BlockSize(d) % WriteSize(d) = 0
    BY DEF BlockOK
  <1>5. BlockSize(d) # 0
    BY <1>3, <1>4, SizesAreNats
  <1> QED BY <1>2, <1>3, <1>4, <1>5

(* Its configuration.                                                      *)
LEMMA BdlCfgFits ==
  ASSUME NEW d \in Device, NEW c, Accepted(d, c)
  PROVE  LET k == BdlCfg(d) IN
         /\ k \in [read : Sizes \ {0}, prog : Sizes \ {0}, block : Sizes \ {0},
                   count : Sizes \ {0}, cache : Sizes \ {0}]
         /\ k.cache <= CACHE_SIZE
         /\ k.cache % k.read = 0 /\ k.cache % k.prog = 0 /\ k.block % k.cache = 0
         /\ k.count <= d.disk \div k.block
         /\ k.block >= LFS_MIN_BLOCK_SIZE
  <1>1. UnitsOK(d) /\ BlockOK(d) /\ BdlCfg(d).cache # 0 /\ CacheAssert(BdlCfg(d))
    BY DEF Accepted, Usable
  <1> DEFINE r == ReadSize(d)  w == WriteSize(d)  b == BlockSize(d)
             n == (d.disk \div b) % WORD  cache == CacheSize(b, r, w)
  <1>2. r \in Sizes \ {0} /\ w \in Sizes \ {0} /\ b \in Sizes \ {0}
    BY <1>1, BlockSizeFits
  <1>3. b >= LFS_MIN_BLOCK_SIZE /\ n # 0
    BY <1>1 DEF BlockOK
  <1>4. BdlCfg(d) = [read |-> r, prog |-> w, block |-> b, count |-> n, cache |-> cache]
    BY DEF BdlCfg
  <1> HIDE DEF r, w, b
  <1>5. /\ cache \in Nat /\ cache <= CACHE_SIZE /\ cache <= b
        /\ cache % r = 0 /\ cache % w = 0
    BY <1>2, SizesAreNats, CacheSizeFits
  <1>6. cache \in Sizes
    BY <1>2, <1>5, BlockDeviceAssumption DEF Sizes
  <1>7. d.disk \div b \in Nat
    BY <1>2, SizesAreNats DEF Device
  <1>8. n \in Sizes /\ n <= d.disk \div b
    BY <1>7, SizesAreNats
  <1> HIDE DEF n, cache
  <1>9. cache # 0 /\ b % cache = 0
    BY <1>1, <1>4 DEF CacheAssert
  <1> QED BY <1>2, <1>3, <1>4, <1>5, <1>6, <1>8, <1>9 DEF b

Config == [read : Sizes \ {0}, prog : Sizes \ {0}, block : Sizes \ {0}, count : Sizes, cache : Sizes]

(* The configuration of any device has its types.                          *)
LEMMA CfgFits ==
  ASSUME LifeOK, CfgFor(cfg)
  PROVE  cfg \in Config
  <1> USE SizesAreNats
  <1>1. device \in Device
    BY BlockDeviceAssumption DEF LifeOK
  <1>2. CASE device.kind = "blockdev"
    <2>1. Accepted(device, conf) /\ cfg = BdlCfg(device)
      BY <1>2 DEF CfgFor
    <2> QED BY <1>1, <2>1, BdlCfgFits DEF Config
  <1>3. CASE device.kind = "partition"
    <2>1. PICK n \in PartBlocks(device) : cfg = [PartCfg EXCEPT !.count = n]
      BY <1>3 DEF CfgFor
    <2>2. device.disk \div BLOCK_SIZE \in Nat
      BY <1>1 DEF Device
    <2>3. n \in Sizes
      BY <2>2 DEF PartBlocks
    <2>4. {CACHE_SIZE, READ_SIZE, WRITE_SIZE, BLOCK_SIZE} \subseteq Sizes \ {0}
      BY BlockDeviceAssumption
    <2> QED BY <2>1, <2>3, <2>4 DEF PartCfg, Config
  <1>4. CASE device.kind = "sdcard"
    <2>1. cfg = SdCfg(device)
      BY <1>4 DEF CfgFor
    <2>2. device.read \in Sizes \ {0} /\ device.disk \div device.read < WORD /\ device.disk \in Nat
      BY <1>1, <1>4, BlockDeviceAssumption DEF LifeOK, Device
    <2>a. device.disk \in Nat /\ device.read \in Nat \ {0}
      BY <2>2
    <2>b. device.disk \div device.read \in Nat
      BY <2>a, DivMod
    <2>3. device.disk \div device.read \in Sizes
      BY <2>2, <2>b
    <2>4. CACHE_SIZE \in Sizes
      BY BlockDeviceAssumption
    <2> QED BY <2>1, <2>2, <2>3, <2>4 DEF SdCfg, Config
  <1>5. device.kind \in {"blockdev", "partition", "sdcard"}
    BY <1>1 DEF Device
  <1> QED BY <1>2, <1>3, <1>4, <1>5

(* The two properties of the geometry.                                     *)
LEMMA GeometryAccepted ==
  ASSUME LifeOK, CfgOK
  PROVE  AcceptedGeometry /\ LogicalBlockIsLeast
  <1> SUFFICES ASSUME Configured, device.kind = "blockdev"
               PROVE  /\ AcceptedGeometry
                      /\ ~Classic(device) =>
                           \A n \in LFS_MIN_BLOCK_SIZE .. cfg.block :
                             (n % cfg.read = 0 /\ n % cfg.prog = 0) <=> n = cfg.block
    BY DEF AcceptedGeometry, LogicalBlockIsLeast
  <1>1. Accepted(device, conf) /\ cfg = BdlCfg(device) /\ device \in Device
    BY BlockDeviceAssumption DEF CfgOK, CfgFor, Configured, LifeOK
  <1>2. AcceptedGeometry
    <2>1. /\ cfg.cache \in Sizes \ {0} /\ cfg.count \in Sizes \ {0} /\ cfg.block \in Sizes \ {0}
          /\ cfg.cache <= CACHE_SIZE /\ cfg.count <= device.disk \div cfg.block
          /\ cfg.cache % cfg.read = 0 /\ cfg.cache % cfg.prog = 0 /\ cfg.block % cfg.cache = 0
          /\ cfg.block >= LFS_MIN_BLOCK_SIZE
      BY <1>1, BdlCfgFits
    <2>a. device.disk \in Nat /\ cfg.block \in Nat \ {0} /\ cfg.cache \in Nat \ {0} /\ cfg.count \in Nat \ {0}
      BY <1>1, <2>1, SizesAreNats DEF Device
    <2>2. device.disk \div cfg.block \in Nat
      BY <2>a, DivMod
    <2>b. CACHE_SIZE \in Nat
      BY SizesAreNats
    <2>3. cfg.cache \in 1 .. CACHE_SIZE /\ cfg.count \in 1 .. (device.disk \div cfg.block)
      BY <2>1, <2>2, <2>a, <2>b
    <2> QED BY <2>1, <2>3 DEF AcceptedGeometry
  <1>3. cfg.read = ReadSize(device) /\ cfg.prog = WriteSize(device) /\ cfg.block = BlockSize(device)
    BY <1>1 DEF BdlCfg
  <1>4. UnitsOK(device) /\ BlockOK(device)
    BY <1>1 DEF Accepted, Usable
  <1> QED BY <1>1, <1>2, <1>3, <1>4, LogicalBlockFits

-----------------------------------------------------------------------------
(***************************************************************************)
(* Access: what a device is asked for.                                     *)
(***************************************************************************)

(* The access that a device works on.                                      *)
IoOK ==
  /\ io \in [op : Ops \cup {"none"}, block : Sizes, off : Sizes, size : Nat, addr : Nat, len : Nat]
  /\ AccessOnDevice /\ AccessMatchesRequest

GeometryInv == LifeOK /\ CfgOK

(* What the invariant says of the device and the block size.               *)
LEMMA DeviceTyped ==
  LifeOK => device \in Device
  BY BlockDeviceAssumption DEF LifeOK

LEMMA BlockIsNat ==
  ASSUME GeometryInv
  PROVE  cfg.block \in Nat
  <1>1. CASE cfg = NoCfg
    BY <1>1 DEF NoCfg
  <1>2. CASE CfgFor(cfg)
    <2>1. cfg.block \in Sizes
      BY <1>2, CfgFits DEF GeometryInv, Config
    <2> QED BY <2>1, SizesAreNats
  <1> QED BY <1>1, <1>2 DEF GeometryInv, CfgOK

(* No access is an access that fits.                                       *)
LEMMA NothingAccessed ==
  ASSUME GeometryInv, io = NoIo
  PROVE  IoOK
  <1>1. io \in [op : Ops \cup {"none"}, block : Sizes, off : Sizes, size : Nat, addr : Nat, len : Nat]
    BY SizesAreNats DEF NoIo
  <1>2. AccessOnDevice
    <2>1. device.disk \in Nat
      BY DeviceTyped DEF GeometryInv, Device
    <2>2. io.addr = 0 /\ io.len = 0 /\ io.op = "none"
      BY DEF NoIo
    <2> QED BY <2>1, <2>2 DEF AccessOnDevice
  <1>3. AccessMatchesRequest
    <2>1. 0 = 0 * cfg.block + 0
      BY BlockIsNat
    <2> QED BY <2>1 DEF AccessMatchesRequest, NoIo
  <1> QED BY <1>1, <1>2, <1>3 DEF IoOK

(* n is a number of units of the device.                                   *)
AlignedTo(op, n) ==
  /\ op = "read" => n % device.read = 0
  /\ op = "write" => n % device.write = 0
  /\ op = "erase" /\ Classic(device) => n % device.erase = 0

(* An access that was aligned, on the device and as asked for keeps the    *)
(* invariant.                                                              *)
LEMMA PassKeeps ==
  ASSUME UNCHANGED <<device, cfg>>,
         NEW op \in Ops, NEW block \in Sizes, NEW off \in Sizes, NEW size \in Nat, NEW addr \in Nat,
         Pass(op, block, off, size, addr, size),
         addr = block * cfg.block + off,
         device.kind # "sdcard" => addr + size <= device.disk,
         device.kind = "blockdev" => AlignedTo(op, addr) /\ AlignedTo(op, size)
  PROVE  IoOK'
  <1>1. /\ io' = [op |-> op, block |-> block, off |-> off, size |-> size, addr |-> addr, len |-> size]
        /\ io'.op = op /\ io'.block = block /\ io'.off = off /\ io'.size = size
        /\ io'.addr = addr /\ io'.len = size
    BY DEF Pass
  <1>2. AccessMatchesRequest'
    BY <1>1 DEF AccessMatchesRequest
  <1>3. AccessOnDevice'
    <2>1. addr % 1 = 0 /\ size % 1 = 0
      OBVIOUS
    <2> QED BY <1>1, <2>1 DEF AccessOnDevice, AlignedTo, Classic
  <1>4. (io \in [op : Ops \cup {"none"}, block : Sizes, off : Sizes, size : Nat, addr : Nat, len : Nat])'
    BY <1>1
  <1> QED BY <1>2, <1>3, <1>4 DEF IoOK

(* Block numbers; those of a partition end within a word.                  *)
LEMMA BlocksAreSizes ==
  ASSUME GeometryInv, CfgFor(cfg), NEW block \in Blocks
  PROVE  /\ block \in Sizes
         /\ device.kind = "partition" =>
              block * cfg.block + cfg.block <= WORD /\ cfg.block = BLOCK_SIZE
  <1>1. cfg \in Config /\ cfg.count \in Sizes /\ cfg.count \in Nat /\ cfg.block \in Nat \ {0}
    BY CfgFits, SizesAreNats DEF GeometryInv, Config
  <1>2. /\ MAX_BLOCK \in Nat /\ BLOCK_SIZE \in Nat \ {0} /\ WORD \in Nat
        /\ (MAX_BLOCK + 1) * BLOCK_SIZE <= WORD
    BY BlockDeviceAssumption, SizesAreNats
  <1>3. block \in Nat /\ (IF cfg.count = 0 THEN block <= MAX_BLOCK ELSE block < cfg.count)
    BY <1>1, <1>2 DEF Blocks
  <1>4. MAX_BLOCK < WORD
    BY <1>2
  <1>5. block \in Sizes
    BY <1>1, <1>2, <1>3, <1>4 DEF Sizes
  <1>6. ASSUME device.kind = "partition"
        PROVE  block * cfg.block + cfg.block <= WORD /\ cfg.block = BLOCK_SIZE
    <2>1. PICK n \in PartBlocks(device) : cfg = [PartCfg EXCEPT !.count = n]
      BY <1>6 DEF CfgFor
    <2>2. cfg.block = BLOCK_SIZE /\ cfg.count = n
      BY <2>1 DEF PartCfg
    <2>3. (block + 1) * BLOCK_SIZE = block * BLOCK_SIZE + BLOCK_SIZE
      BY <1>2, <1>3
    <2>4. CASE cfg.count = 0
      <3>1. block + 1 <= MAX_BLOCK + 1
        BY <1>2, <1>3, <2>4
      <3>2. (block + 1) * BLOCK_SIZE <= (MAX_BLOCK + 1) * BLOCK_SIZE
        BY <1>2, <1>3, <3>1
      <3>3. (block + 1) * BLOCK_SIZE \in Nat /\ (MAX_BLOCK + 1) * BLOCK_SIZE \in Nat
        BY <1>2, <1>3
      <3> QED BY <1>2, <2>2, <2>3, <3>2, <3>3
    <2>5. CASE cfg.count # 0
      <3> DEFINE q == device.disk \div BLOCK_SIZE
      <3>1. device.disk \in Nat /\ device.disk < WORD
        <4>1. device.disk \in Nat /\ device \in Devices
          BY DeviceTyped DEF GeometryInv, Device, LifeOK
        <4>2. device.disk + BLOCK_SIZE < WORD
          BY <1>6, <4>1, BlockDeviceAssumption
        <4> QED BY <1>2, <4>1, <4>2
      <3>2. q \in Nat /\ BLOCK_SIZE * q <= device.disk
        BY <1>2, <3>1
      <3>3. n <= q
        BY <2>2, <2>5, <3>2, SizesAreNats DEF PartBlocks
      <3> HIDE DEF q
      <3>4. block + 1 <= q
        BY <1>1, <1>3, <2>2, <2>5, <3>2, <3>3
      <3>5. (block + 1) * BLOCK_SIZE <= BLOCK_SIZE * q
        BY <1>2, <1>3, <3>2, <3>4
      <3>6. (block + 1) * BLOCK_SIZE \in Nat /\ BLOCK_SIZE * q \in Nat
        BY <1>2, <1>3, <3>2
      <3> QED BY <1>2, <2>2, <2>3, <3>1, <3>2, <3>5, <3>6
    <2> QED BY <2>2, <2>4, <2>5
  <1> QED BY <1>5, <1>6

(* What littlefs may ask of its hooks.                                     *)
LEMMA RequestFits ==
  ASSUME GeometryInv, CfgFor(cfg), NEW u \in {cfg.read, cfg.prog},
         NEW block \in Blocks, NEW off \in Units(u), NEW size \in Units(u) \ {0},
         off + size <= cfg.block
  PROVE  /\ block \in Sizes /\ off \in Sizes /\ size \in Nat \ {0}
         /\ off % u = 0 /\ size % u = 0
         /\ block * cfg.block + off \in Nat
         /\ device.kind = "partition" => block * cfg.block + off < WORD /\ size <= BLOCK_SIZE
  <1>1. cfg \in Config /\ cfg.block \in Nat \ {0} /\ cfg.block < WORD /\ WORD \in Nat
    BY CfgFits, SizesAreNats DEF GeometryInv, Config, Sizes
  <1>2. off \in Nat /\ off <= cfg.block /\ off % u = 0 /\ size \in Nat \ {0} /\ size % u = 0
    BY <1>1 DEF Units
  <1>3. block \in Nat /\ block \in Sizes
    BY BlocksAreSizes, SizesAreNats
  <1>4. off \in Sizes
    BY <1>1, <1>2 DEF Sizes
  <1>5. block * cfg.block \in Nat
    BY <1>1, <1>3
  <1>6. ASSUME device.kind = "partition"
        PROVE  block * cfg.block + off < WORD /\ size <= BLOCK_SIZE
    <2>1. block * cfg.block + cfg.block <= WORD /\ cfg.block = BLOCK_SIZE
      BY <1>6, BlocksAreSizes
    <2> QED BY <1>1, <1>2, <1>5, <2>1
  <1> QED BY <1>2, <1>3, <1>4, <1>5, <1>6

(* The geometry of a block device that was accepted.                       *)
LEMMA BdlUnits ==
  ASSUME GeometryInv, CfgFor(cfg), device.kind = "blockdev"
  PROVE  /\ device.disk \in Nat \ {0} /\ device.read \in Nat \ {0} /\ device.write \in Nat \ {0}
         /\ cfg.read \in Nat \ {0} /\ cfg.read % device.read = 0 /\ cfg.block % cfg.read = 0
         /\ cfg.prog \in Nat \ {0} /\ cfg.prog % device.write = 0 /\ cfg.block % cfg.prog = 0
  <1>1. Accepted(device, conf) /\ cfg = BdlCfg(device)
    BY DEF CfgFor
  <1>2. UnitsOK(device) /\ BlockOK(device) /\ device \in Device
    BY <1>1, DeviceTyped DEF Accepted, Usable, GeometryInv
  <1>3. cfg.read = ReadSize(device) /\ cfg.prog = WriteSize(device) /\ cfg.block = BlockSize(device)
    BY <1>1 DEF BdlCfg
  <1>4. device.disk \in Nat /\ device.read \in Sizes /\ device.write \in Sizes
    BY <1>2 DEF Device
  <1>5. device.disk # 0 /\ device.read # 0 /\ device.write # 0
    BY <1>2 DEF UnitsOK
  <1>6. /\ ReadSize(device) \in Nat \ {0} /\ WriteSize(device) \in Nat \ {0}
        /\ ReadSize(device) % device.read = 0 /\ WriteSize(device) % device.write = 0
        /\ BlockSize(device) % ReadSize(device) = 0 /\ BlockSize(device) % WriteSize(device) = 0
    BY <1>2, BlockSizeFits, SizesAreNats
  <1> QED BY <1>3, <1>4, <1>5, <1>6, SizesAreNats

(* An SD card is read, written and erased in whole sectors.                *)
LEMMA SdUnits ==
  ASSUME GeometryInv, CfgFor(cfg), device.kind = "sdcard"
  PROVE  /\ device.read \in Sizes \ {0}
         /\ cfg.read = device.read /\ cfg.prog = device.read /\ cfg.block = device.read
  <1>1. cfg = SdCfg(device) /\ device \in Device /\ device \in Devices
    BY DeviceTyped DEF CfgFor, GeometryInv, LifeOK
  <1>2. device.read # 0 /\ device.read \in Sizes
    BY <1>1, BlockDeviceAssumption DEF Device
  <1> QED BY <1>1, <1>2 DEF SdCfg

(* The hooks of block devices.                                             *)
LEMMA BdlTransferKeeps ==
  ASSUME GeometryInv, CfgFor(cfg), UNCHANGED <<device, cfg>>,
         NEW op \in {"read", "write"}, NEW block \in Blocks,
         NEW off \in Units(IF op = "read" THEN cfg.read ELSE cfg.prog),
         NEW size \in Units(IF op = "read" THEN cfg.read ELSE cfg.prog) \ {0},
         off + size <= cfg.block,
         device.kind = "blockdev",
         OnDisk(BdlAddr(block, off), size),
         Pass(op, block, off, size, BdlAddr(block, off), size)
  PROVE  IoOK'
  <1> DEFINE u == IF op = "read" THEN cfg.read ELSE cfg.prog
             unit == IF op = "read" THEN device.read ELSE device.write
             addr == block * cfg.block + off
  <1>1. /\ device.disk \in Nat \ {0} /\ unit \in Nat \ {0} /\ u \in Nat \ {0}
        /\ u % unit = 0 /\ cfg.block % u = 0
    BY BdlUnits
  <1>2. /\ block \in Sizes /\ off \in Sizes /\ size \in Nat \ {0} /\ addr \in Nat
        /\ off % u = 0 /\ size % u = 0
    BY RequestFits
  <1>3. addr + size <= device.disk
    BY <1>1 DEF OnDisk, BdlAddr
  <1>a. block \in Nat /\ off \in Nat /\ cfg.block \in Nat /\ size \in Nat
    BY <1>2, SizesAreNats, BlockIsNat
  <1> HIDE DEF u, unit
  <1>b. (block * cfg.block + off) % unit = 0 /\ size % unit = 0
    <2>1. unit \in Nat \ {0} /\ u \in Nat \ {0}
      BY <1>1
    <2>2. u % unit = 0 /\ cfg.block % u = 0 /\ off % u = 0 /\ size % u = 0
      BY <1>1, <1>2
    <2>3. Divides(unit, u) /\ Divides(u, cfg.block) /\ Divides(u, off) /\ Divides(u, size)
      BY <2>1, <2>2, <1>a, ModIsDivides
    <2>4. Divides(unit, cfg.block) /\ Divides(unit, off) /\ Divides(unit, size)
      BY <2>1, <2>3, <1>a, DividesTransitive
    <2>5. block * cfg.block \in Nat /\ block * cfg.block + off \in Nat
      BY <1>a
    <2>6. Divides(unit, block * cfg.block + off)
      BY <2>1, <2>4, <2>5, <1>a, DividesProduct, DividesSum
    <2> QED BY <2>1, <2>4, <2>5, <2>6, <1>a, ModIsDivides
  <1>4. addr % unit = 0 /\ size % unit = 0
    BY <1>b
  <1>5. AlignedTo(op, addr) /\ AlignedTo(op, size)
    BY <1>4 DEF AlignedTo, unit
  <1>6. Pass(op, block, off, size, addr, size)
    BY DEF BdlAddr
  <1> HIDE DEF addr
  <1>7. op \in Ops
    BY DEF Ops
  <1> QED BY <1>2, <1>3, <1>5, <1>6, <1>7, PassKeeps DEF addr

LEMMA BdlEraseKeeps ==
  ASSUME GeometryInv, CfgFor(cfg), UNCHANGED <<device, cfg>>,
         NEW block \in Blocks, bdl_erase(block)
  PROVE  IoOK'
  <1> DEFINE addr == block * cfg.block + 0
  <1>1. /\ device.kind = "blockdev" /\ OnDisk(addr, cfg.block)
        /\ Pass("erase", block, 0, cfg.block, addr, cfg.block)
        /\ AlignedTo("erase", addr) /\ AlignedTo("erase", cfg.block)
    BY DEF bdl_erase, BdlAddr, AlignedTo
  <1>2. block \in Sizes /\ block \in Nat /\ 0 \in Sizes /\ cfg.block \in Nat
    BY BlocksAreSizes, SizesAreNats, BlockIsNat
  <1>3. addr \in Nat
    BY <1>2
  <1>4. addr + cfg.block <= device.disk
    BY <1>1, BdlUnits DEF OnDisk
  <1> QED BY <1>1, <1>2, <1>3, <1>4, PassKeeps DEF Ops

(* The hooks of partitions: the address does not wrap, so the range that   *)
(* is tested is the one that is accessed.                                  *)
LEMMA PartTransferKeeps ==
  ASSUME GeometryInv, CfgFor(cfg), UNCHANGED <<device, cfg>>,
         NEW op \in {"read", "write"}, NEW u \in {cfg.read, cfg.prog}, NEW block \in Blocks,
         NEW off \in Units(u), NEW size \in Units(u) \ {0},
         off + size <= cfg.block,
         device.kind = "partition",
         MmapOK(PartAddr(block, off), size) \/ PartAddr(block, off) + size <= device.disk,
         Pass(op, block, off, size, PartAddr(block, off), size)
  PROVE  IoOK'
  <1> DEFINE addr == block * cfg.block + off
  <1>1. /\ block \in Sizes /\ off \in Sizes /\ size \in Nat /\ addr \in Nat
        /\ addr < WORD /\ size <= BLOCK_SIZE
    BY RequestFits
  <1>a. WORD \in Nat \ {0}
    BY SizesAreNats
  <1>b. ASSUME NEW n \in Nat, n < WORD PROVE n % WORD = n
    BY <1>a, <1>b
  <1>2. PartAddr(block, off) = addr
    BY <1>1, <1>b DEF PartAddr
  <1>3. /\ device.disk \in Nat /\ device.disk + BLOCK_SIZE < WORD
        /\ BLOCK_SIZE \in Nat /\ WORD \in Nat \ {0}
    BY DeviceTyped, BlockDeviceAssumption, SizesAreNats DEF GeometryInv, LifeOK, Device
  <1> HIDE DEF addr
  <1>4. addr + size <= device.disk
    <2>1. CASE MmapOK(addr, size)
      <3>1. addr + size \in Nat /\ addr + size < WORD
        BY <1>1, <1>3, <2>1 DEF MmapOK
      <3>2. (addr + size) % WORD = addr + size
        BY <1>3, <3>1
      <3> QED BY <2>1, <3>2 DEF MmapOK
    <2> QED BY <1>2, <2>1
  <1>5. Pass(op, block, off, size, addr, size) /\ op \in Ops
    BY <1>2 DEF Ops
  <1> QED BY <1>1, <1>4, <1>5, PassKeeps DEF addr

LEMMA PartEraseKeeps ==
  ASSUME GeometryInv, CfgFor(cfg), UNCHANGED <<device, cfg>>,
         NEW block \in Blocks, part_erase(block)
  PROVE  IoOK'
  <1> DEFINE addr == block * cfg.block + 0
  <1>1. /\ device.kind = "partition" /\ PartAddr(block, 0) + cfg.block <= device.disk
        /\ Pass("erase", block, 0, cfg.block, PartAddr(block, 0), cfg.block)
    BY DEF part_erase
  <1>2. block \in Sizes /\ block \in Nat /\ 0 \in Sizes /\ cfg.block \in Nat \ {0} /\ WORD \in Nat \ {0}
    BY BlocksAreSizes, SizesAreNats, CfgFits DEF GeometryInv, Config
  <1>3. block * cfg.block + cfg.block <= WORD
    BY <1>1, BlocksAreSizes
  <1>4. addr \in Nat /\ addr < WORD
    BY <1>2, <1>3
  <1>5. PartAddr(block, 0) = addr
    BY <1>2, <1>4 DEF PartAddr
  <1> HIDE DEF addr
  <1>6. addr + cfg.block <= device.disk /\ Pass("erase", block, 0, cfg.block, addr, cfg.block)
    BY <1>1, <1>5
  <1> QED BY <1>1, <1>2, <1>4, <1>6, PassKeeps DEF Ops, addr

(* The hooks of SD cards: the one sector of a transfer is the whole block. *)
LEMMA SdTransferKeeps ==
  ASSUME GeometryInv, CfgFor(cfg), UNCHANGED <<device, cfg>>,
         NEW op \in {"read", "write"}, NEW u \in {cfg.read, cfg.prog}, NEW block \in Blocks,
         NEW off \in Units(u), NEW size \in Units(u) \ {0},
         off + size <= cfg.block,
         sdmmc_transfer(op, block, off, size, u)
  PROVE  IoOK'
  <1>1. device.kind = "sdcard"
    BY DEF sdmmc_transfer
  <1>2. u = device.read /\ u = cfg.block /\ u \in Nat \ {0}
    BY <1>1, SdUnits, SizesAreNats
  <1>3. block \in Sizes /\ off \in Sizes /\ size \in Nat \ {0} /\ off % u = 0 /\ size % u = 0
    BY RequestFits
  <1>a. off \in Nat /\ block \in Nat
    BY <1>3, SizesAreNats
  <1>4. size = u /\ off = 0
    BY <1>2, <1>3, <1>a
  <1>5. size \div u = 1
    BY <1>2, <1>4
  <1>6. 1 * device.read = u
    BY <1>2
  <1>7. Pass(op, block, off, size, block * u, size)
    BY <1>2, <1>4, <1>5, <1>6 DEF sdmmc_transfer
  <1>8. block * u \in Nat /\ block * u = block * cfg.block + off
    BY <1>2, <1>4, <1>a
  <1> QED BY <1>1, <1>3, <1>7, <1>8, PassKeeps DEF Ops

LEMMA SdEraseKeeps ==
  ASSUME GeometryInv, CfgFor(cfg), UNCHANGED <<device, cfg>>,
         NEW block \in Blocks, sdmmc_erase(block)
  PROVE  IoOK'
  <1>1. device.kind = "sdcard" /\ device.read = cfg.block
    BY SdUnits DEF sdmmc_erase
  <1>2. block \in Sizes /\ 0 \in Sizes /\ block \in Nat /\ cfg.block \in Nat
    BY BlocksAreSizes, SizesAreNats, BlockIsNat
  <1>3. Pass("erase", block, 0, cfg.block, block * cfg.block, cfg.block)
    BY <1>1 DEF sdmmc_erase
  <1>4. block * cfg.block \in Nat /\ block * cfg.block = block * cfg.block + 0
    BY <1>2
  <1> QED BY <1>1, <1>2, <1>3, <1>4, PassKeeps DEF Ops

(* Every access that littlefs asks for.                                    *)
LEMMA AccessFits ==
  ASSUME GeometryInv, Read \/ Write \/ Erase
  PROVE  IoOK'
  <1>1. UNCHANGED <<device, cfg>> /\ stage \in {"mounting", "formatting", "growing", "mounted"}
    BY DEF Read, Write, Erase, Running, Writing
  <1>2. CfgFor(cfg)
    BY <1>1 DEF GeometryInv, CfgOK
  <1>3. CASE Read
    <2>1. PICK r \in ReadRequests :
            \/ bdl_read(r[1], r[2], r[3])
            \/ part_read_mmap(r[1], r[2], r[3])
            \/ sdmmc_transfer("read", r[1], r[2], r[3], cfg.read)
      BY <1>3 DEF Read
    <2> DEFINE block == r[1]  off == r[2]  size == r[3]
    <2>2. /\ block \in Blocks /\ off \in Units(cfg.read) /\ size \in Units(cfg.read) \ {0}
          /\ off + size <= cfg.block
      BY <2>1 DEF ReadRequests
    <2> HIDE DEF block, off, size
    <2>3. CASE bdl_read(block, off, size)
      <3>1. /\ device.kind = "blockdev" /\ OnDisk(BdlAddr(block, off), size)
            /\ Pass("read", block, off, size, BdlAddr(block, off), size)
        BY <2>3 DEF bdl_read
      <3> QED BY <1>1, <1>2, <2>2, <3>1, BdlTransferKeeps
    <2>4. CASE part_read_mmap(block, off, size)
      <3>1. /\ device.kind = "partition" /\ MmapOK(PartAddr(block, off), size)
            /\ Pass("read", block, off, size, PartAddr(block, off), size)
        BY <2>4 DEF part_read_mmap
      <3> QED BY <1>1, <1>2, <2>2, <3>1, PartTransferKeeps
    <2>5. CASE sdmmc_transfer("read", block, off, size, cfg.read)
      BY <1>1, <1>2, <2>2, <2>5, SdTransferKeeps
    <2> QED BY <2>1, <2>3, <2>4, <2>5 DEF block, off, size
  <1>4. CASE Write
    <2>1. PICK r \in WriteRequests :
            \/ bdl_write(r[1], r[2], r[3])
            \/ part_write(r[1], r[2], r[3])
            \/ sdmmc_transfer("write", r[1], r[2], r[3], cfg.prog)
      BY <1>4 DEF Write
    <2> DEFINE block == r[1]  off == r[2]  size == r[3]
    <2>2. /\ block \in Blocks /\ off \in Units(cfg.prog) /\ size \in Units(cfg.prog) \ {0}
          /\ off + size <= cfg.block
      BY <2>1 DEF WriteRequests
    <2> HIDE DEF block, off, size
    <2>3. CASE bdl_write(block, off, size)
      <3>1. /\ device.kind = "blockdev" /\ OnDisk(BdlAddr(block, off), size)
            /\ Pass("write", block, off, size, BdlAddr(block, off), size)
        BY <2>3 DEF bdl_write
      <3> QED BY <1>1, <1>2, <2>2, <3>1, BdlTransferKeeps
    <2>4. CASE part_write(block, off, size)
      <3>1. /\ device.kind = "partition" /\ PartAddr(block, off) + size <= device.disk
            /\ Pass("write", block, off, size, PartAddr(block, off), size)
        BY <2>4 DEF part_write
      <3> QED BY <1>1, <1>2, <2>2, <3>1, PartTransferKeeps
    <2>5. CASE sdmmc_transfer("write", block, off, size, cfg.prog)
      BY <1>1, <1>2, <2>2, <2>5, SdTransferKeeps
    <2> QED BY <2>1, <2>3, <2>4, <2>5 DEF block, off, size
  <1>5. CASE Erase
    <2>1. PICK block \in Blocks : bdl_erase(block) \/ part_erase(block) \/ sdmmc_erase(block)
      BY <1>5 DEF Erase
    <2> QED BY <1>1, <1>2, <2>1, BdlEraseKeeps, PartEraseKeeps, SdEraseKeeps
  <1> QED BY <1>3, <1>4, <1>5

(* A sync accesses nothing.                                                *)
LEMMA SyncFits ==
  ASSUME GeometryInv, Sync
  PROVE  IoOK'
  <1>1. /\ device.kind = "blockdev" /\ UNCHANGED <<device, cfg>>
        /\ Pass("sync", 0, 0, 0, 0, 0)
    BY DEF Sync
  <1>2. 0 \in Sizes /\ cfg.block \in Nat /\ device.disk \in Nat
    BY BlockIsNat, SizesAreNats, DeviceTyped DEF GeometryInv, Device
  <1>3. 0 = 0 * cfg.block + 0 /\ 0 + 0 <= device.disk
    BY <1>2
  <1>4. AlignedTo("sync", 0) /\ "sync" \in Ops
    BY DEF AlignedTo, Ops
  <1> QED BY <1>1, <1>2, <1>3, <1>4, PassKeeps

(* A format of an SD card erases it as a whole.                            *)
LEMMA WholeEraseFits ==
  ASSUME GeometryInv, NEW after, BeginFormat(after), device.kind = "sdcard"
  PROVE  IoOK'
  <1>1. /\ UNCHANGED <<device, cfg>>
        /\ Pass("erase", 0, 0, device.disk, 0, device.disk)
    BY DEF BeginFormat, GoTo, Pass, NoIo
  <1>2. 0 \in Sizes /\ cfg.block \in Nat /\ device.disk \in Nat
    BY BlockIsNat, SizesAreNats, DeviceTyped DEF GeometryInv, Device
  <1>3. 0 = 0 * cfg.block + 0
    BY <1>2
  <1> QED BY <1>1, <1>2, <1>3, PassKeeps DEF Ops

(* The inductive invariant.                                                *)
BlockDeviceInv == GeometryInv /\ IoOK

(* The invariant is inductive.                                             *)
LEMMA GeometryNext ==
  ASSUME GeometryInv, [Next]_vars
  PROVE  GeometryInv'
  BY LifeKept, CfgKept DEF GeometryInv

LEMMA BlockDeviceInit ==
  ASSUME Init
  PROVE  BlockDeviceInv
  <1>1. GeometryInv
    BY DEF Init, GeometryInv, LifeOK, CfgOK, Stages
  <1> QED BY <1>1, NothingAccessed DEF Init, BlockDeviceInv

LEMMA BlockDeviceNext ==
  ASSUME BlockDeviceInv, [Next]_vars
  PROVE  BlockDeviceInv'
  <1>1. GeometryInv /\ GeometryInv' /\ IoOK
    BY GeometryNext DEF BlockDeviceInv
  <1> SUFFICES IoOK'
    BY <1>1 DEF BlockDeviceInv
  <1>2. ASSUME io' = NoIo PROVE IoOK'
    <2>1. (GeometryInv /\ io = NoIo => IoOK)'
      BY NothingAccessed, PTL
    <2> QED BY <1>1, <1>2, <2>1
  <1>3. ASSUME NEW after, BeginFormat(after) PROVE IoOK'
    <2>1. CASE device.kind = "sdcard"
      BY <1>1, <1>3, <2>1, WholeEraseFits
    <2>2. CASE device.kind # "sdcard"
      BY <1>2, <1>3, <2>2 DEF BeginFormat, GoTo, Idle
    <2> QED BY <2>1, <2>2
  <1>4. CASE Configure \/ Refuse \/ NoMemory \/ Abort \/ MountOk \/ GrowOk \/ GrowFails
             \/ FormatOk \/ FormatFails
    <2>1. io' = NoIo
      BY <1>4 DEF Configure, Accept, Refuse, NoMemory, Abort, MountOk, GrowOk, GrowFails,
                  FormatOk, FormatFails, GoTo, Idle
    <2> QED BY <1>2, <2>1
  <1>5. CASE MountFails
    <2>1. (\E after : BeginFormat(after)) \/ io' = NoIo
      BY <1>5 DEF MountFails, GoTo, Idle
    <2> QED BY <1>2, <1>3, <2>1
  <1>6. CASE FormatVolume
    BY <1>3, <1>6 DEF FormatVolume
  <1>7. CASE Read \/ Write \/ Erase
    BY <1>1, <1>7, AccessFits
  <1>8. CASE Sync
    BY <1>1, <1>8, SyncFits
  <1>9. CASE Answer
    BY <1>2, <1>9 DEF Answer
  <1>10. CASE UNCHANGED vars
    BY <1>1, <1>10 DEF vars, IoOK, AccessOnDevice, AccessMatchesRequest, Classic
  <1> QED BY <1>4, <1>5, <1>6, <1>7, <1>8, <1>9, <1>10 DEF Next

LEMMA BlockDeviceAlways ==
  Spec => []BlockDeviceInv
  <1>1. Init => BlockDeviceInv
    BY BlockDeviceInit
  <1>2. BlockDeviceInv /\ [Next]_vars => BlockDeviceInv'
    BY BlockDeviceNext
  <1> QED BY <1>1, <1>2, PTL DEF Spec

(* The types: the numbers of the configuration and of every access stay    *)
(* within their words, and a format goes on with a mount only while        *)
(* registered (esp_littlefs_init, format_from_efs).                        *)
THEOREM BlockDeviceTypeCorrect == Spec => []TypeOK
  <1>1. BlockDeviceInv => TypeOK
    <2> SUFFICES ASSUME BlockDeviceInv PROVE TypeOK
      OBVIOUS
    <2>1. cfg \in [read : Sizes, prog : Sizes, block : Sizes, count : Sizes, cache : Sizes]
      <3>1. CASE cfg = NoCfg
        BY <3>1, SizesAreNats DEF NoCfg
      <3>2. CASE CfgFor(cfg)
        BY <3>2, CfgFits DEF BlockDeviceInv, GeometryInv, Config
      <3> QED BY <3>1, <3>2 DEF BlockDeviceInv, GeometryInv, CfgOK
    <2> QED BY <2>1 DEF TypeOK, BlockDeviceInv, GeometryInv, LifeOK, IoOK, Stages
  <1> QED BY <1>1, BlockDeviceAlways, PTL

(* Whatever units, sizes and recommendations a block device reports, a     *)
(* geometry that esp_littlefs_init_blockdev accepts meets the assertions   *)
(* of littlefs, lies on the device, and has a cache that fits the file     *)
(* buffer.                                                                 *)
THEOREM GeometryIsSound == Spec => []AcceptedGeometry
  <1>1. BlockDeviceInv => AcceptedGeometry
    BY GeometryAccepted DEF BlockDeviceInv, GeometryInv
  <1> QED BY <1>1, BlockDeviceAlways, PTL

(* The block that esp_littlefs_init_blockdev computes in logical mode is   *)
(* the least common multiple of the read and program sizes that reaches    *)
(* the minimum of littlefs, and no wrapped product is ever accepted.       *)
THEOREM LogicalBlocksAreLeast == Spec => []LogicalBlockIsLeast
  <1>1. BlockDeviceInv => LogicalBlockIsLeast
    BY GeometryAccepted DEF BlockDeviceInv, GeometryInv
  <1> QED BY <1>1, BlockDeviceAlways, PTL

(* The hooks let no access reach a block device or a partition that does   *)
(* not lie on it, or that is not aligned to the units of a block device    *)
(* (littlefs_bdl.c, littlefs_esp_part.c).                                  *)
THEOREM AccessStaysOnDevice == Spec => []AccessOnDevice
  <1>1. BlockDeviceInv => AccessOnDevice
    BY DEF BlockDeviceInv, IoOK
  <1> QED BY <1>1, BlockDeviceAlways, PTL

(* An access reaches exactly the bytes that littlefs asked for: no address *)
(* wraps, and an SD card transfers whole sectors (littlefs_bdl.c,          *)
(* littlefs_esp_part.c, littlefs_sdmmc.c).                                 *)
THEOREM AccessIsWhatWasAsked == Spec => []AccessMatchesRequest
  <1>1. BlockDeviceInv => AccessMatchesRequest
    BY DEF BlockDeviceInv, IoOK
  <1> QED BY <1>1, BlockDeviceAlways, PTL
=============================================================================
