------------------------------ MODULE Ramdisk ------------------------------
(***************************************************************************)
(* The disks of the kernel, swap.img and sfs.img, are images linked into   *)
(* it.  A device is a function from its sectors 0 .. size-1 to data.  The  *)
(* number of sectors left is computed in unsigned arithmetic: a transfer   *)
(* that starts past the end is not cut short.                              *)
(***************************************************************************)
EXTENDS Integers, FiniteSets

\* MIN(nsecs, dev->size - secno)
Remaining(dev, secno, nsecs) ==
    LET left == Cardinality(DOMAIN dev) - secno
    IN  IF left < 0 \/ nsecs < left THEN nsecs ELSE left

\* ide_read_secs: the data of the sectors, from index 0.
ramdisk_read(dev, secno, nsecs) ==
    [i \in 0 .. Remaining(dev, secno, nsecs) - 1 |-> dev[secno + i]]

\* ide_write_secs: the device with the sectors of src (from index 0) in place.
ramdisk_write(dev, secno, src, nsecs) ==
    LET n == Remaining(dev, secno, nsecs)
    IN  [s \in DOMAIN dev |-> IF s \in secno .. secno + n - 1 THEN src[s - secno]
                              ELSE dev[s]]

=============================================================================
