------------------------------ MODULE Widths ------------------------------
(***************************************************************************)
(* Where the numbers of cache.config meet machine words: the masks that    *)
(* cut an address into home node, set index and tag, and the shifts of a   *)
(* 32-bit int that reach the two-bit counters of a 64-bit vector.  Words   *)
(* are scaled down: an int has IntBits bits, read_count_vector twice as    *)
(* many, an address AddrBits.  A shift by IntBits or more is undefined; it *)
(* shifts by the remainder, as the build for x86 does.                     *)
(*                                                                         *)
(* DirectoryLine has the counters as a function.  Here is when that is     *)
(* what the bits do.                                                       *)
(***************************************************************************)
EXTENDS DirectoryLine, Bitwise

CONSTANTS IntBits, AddrBits,
          Configs   \* the configurations init_configuration may read

ASSUME WidthsAssumption ==
  /\ IntBits \in Nat \ {0} /\ AddrBits \in Nat \ {0}
  /\ \A c \in Configs : /\ c.total_processors \in 1 .. NumProcessors
                        /\ c.num_sets \in Nat \ {0}
                        /\ c.line_size \in Nat \ {0}

VARIABLES
  config,              \* l1_config
  phase,               \* "configured", then "running"
  sharer_vector, read_count_vector, last_writer   \* of one Directory_Line

vars == <<config, phase, sharer_vector, read_count_vector, last_writer>>

Addresses == 0 .. 2^AddrBits - 1
Node      == 0 .. config.total_processors - 1
CountWord == 2^(2 * IntBits)

-----------------------------------------------------------------------------
(* Controller: the bit masks of an address.                                 *)

\* The loop halves num until it is 0: the rounded down logarithm.
get_num_bits(num) == CHOOSE b \in 0 .. AddrBits : 2^b <= num /\ num < 2^(b + 1)

ALL_ONES == 2^AddrBits - 1

tag_mask ==
  (ALL_ONES * 2^(get_num_bits(config.line_size) + get_num_bits(config.num_sets))) % 2^AddrBits

get_tag(addr) == addr & tag_mask

\* Fault: the offset within the line stays in the index.
get_set_index_NoShift(addr) == addr & (ALL_ONES - tag_mask)

get_set_index(addr) ==
  (addr & (ALL_ONES - tag_mask)) \div 2^get_num_bits(config.line_size)

get_home_node(addr) == addr & (config.total_processors - 1)

-----------------------------------------------------------------------------
(* Directory_Line: the bits of the vectors.                                 *)

\* The int i << s as it is added to, or tested against, a vector twice as wide:
\* its sign bit fills the upper half.
IntShift(i, s) ==
  LET int == (i * 2^(s % IntBits)) % 2^IntBits
  IN IF int >= 2^(IntBits - 1) THEN int + (2^IntBits - 1) * 2^IntBits ELSE int

bit_is_set(pid) == (sharer_vector & (IntShift(1, pid) % 2^IntBits)) # 0

Count(pid) == (read_count_vector \div 2^(2 * pid)) & 3

\* Fault: the counter runs into its neighbour's.
increased_NoLimit(pid) == (read_count_vector + IntShift(1, 2 * pid)) % CountWord

increased(pid) ==
  IF Count(pid) < 3
  THEN (read_count_vector + IntShift(1, 2 * pid)) % CountWord ELSE read_count_vector

decreased(pid) ==
  IF Count(pid) > 0
  THEN (read_count_vector + CountWord - IntShift(1, 2 * pid)) % CountWord ELSE read_count_vector

bit_qualified_reader(pid) == (read_count_vector & IntShift(1, 2 * pid + 1)) # 0

\* The line as DirectoryLine has it.
AsLine ==
  [ Directory_Line EXCEPT
      !.sharer_vector = {p \in Proc : p \in Node /\ bit_is_set(p)},
      !.last_writer   = last_writer,
      !.read_count    = [p \in Proc |-> IF p \in Node THEN Count(p) ELSE 0] ]

-----------------------------------------------------------------------------
Init ==
  /\ config \in Configs
  /\ phase = "configured"
  /\ sharer_vector = 0
  /\ read_count_vector = 0
  /\ last_writer = NoWriter

Start ==
  /\ phase = "configured"
  /\ phase' = "running"
  /\ UNCHANGED <<config, sharer_vector, read_count_vector, last_writer>>

\* The bit changes that handlers make, each by itself.
SetSharer(pid) ==
  /\ sharer_vector' = sharer_vector | (IntShift(1, pid) % 2^IntBits)
  /\ UNCHANGED <<read_count_vector, last_writer>>

ClearSharer(pid) ==
  /\ sharer_vector' = sharer_vector & (2^IntBits - 1 - (IntShift(1, pid) % 2^IntBits))
  /\ UNCHANGED <<read_count_vector, last_writer>>

Increase(pid) ==
  /\ read_count_vector' = increased(pid)
  /\ UNCHANGED <<sharer_vector, last_writer>>

Decrease(pid) ==
  /\ read_count_vector' = decreased(pid)
  /\ UNCHANGED <<sharer_vector, last_writer>>

UpdateLastWriter(pid) ==
  /\ last_writer' = pid
  /\ sharer_vector' = sharer_vector | (IntShift(1, pid) % 2^IntBits)
  /\ read_count_vector' = 0

Change(pid) ==
  \/ SetSharer(pid) \/ ClearSharer(pid)
  \/ Increase(pid) \/ Decrease(pid) \/ UpdateLastWriter(pid)

Run == phase = "running" /\ UNCHANGED <<config, phase>> /\ \E pid \in Node : Change(pid)

Next == Start \/ Run

Spec == Init /\ [][Next]_vars

-----------------------------------------------------------------------------
\* The vectors stay inside their words: no counter carries out of the highest.
TypeOK ==
  /\ config \in Configs
  /\ phase \in {"configured", "running"}
  /\ sharer_vector \in 0 .. 2^config.total_processors - 1
  /\ read_count_vector \in 0 .. 4^config.total_processors - 1
  /\ last_writer \in Node \cup {NoWriter}

Fits == 2 * config.total_processors <= IntBits

\* As long as the counters fit in an int (16 processors), the bits do what
\* DirectoryLine says, the sign bit of the last counter's shift included: the tests
\* agree, and each step on the bits is a step on the line they stand for.  No
\* counter reaches into its neighbour's field.
BitsImplementDirectoryLine ==
  [][phase = "running" /\ Fits =>
       /\ \A pid \in Node : /\ bit_is_set(pid) <=> is_set(AsLine, pid)
                            /\ bit_qualified_reader(pid) <=> qualified_reader(AsLine, pid)
       /\ \E pid \in Node :
            AsLine' \in { set_sharer(AsLine, pid), clear_sharer(AsLine, pid),
                          increase_read_count(AsLine, pid), decrease_read_count(AsLine, {pid}),
                          update_last_writer(AsLine, pid) }]_vars

IsPowerOfTwo(n) == n = 2^get_num_bits(n)

\* Whatever positive numbers the configuration has, powers of two or not, every
\* address has a home node, and a set, that exists: no vector is indexed out of
\* its range.  With powers of two, two addresses have the same set and tag exactly
\* when they are in the same line (so tags need no set bits), every set and home is
\* used, and the masks are the divisions that module Controller has.
AddressesAreSplit ==
  phase = "configured" =>
    /\ \A addr \in Addresses :
         get_home_node(addr) \in Node /\ get_set_index(addr) \in 0 .. config.num_sets - 1
    /\ IsPowerOfTwo(config.line_size) /\ IsPowerOfTwo(config.num_sets) =>
         /\ \A a, b \in Addresses :
              get_tag(a) = get_tag(b) /\ get_set_index(a) = get_set_index(b)
                <=> a \div config.line_size = b \div config.line_size
         /\ {get_set_index(a) : a \in Addresses} = 0 .. config.num_sets - 1
         /\ IsPowerOfTwo(config.total_processors) =>
              \A a \in Addresses : get_home_node(a) = a % config.total_processors

=============================================================================
