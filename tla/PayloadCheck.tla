---------------------------- MODULE PayloadCheck ----------------------------
(***************************************************************************)
(* validate_payload of src/picoboot.c: how much of the flash behind        *)
(* __payload is copied to the console, computed from the size the header   *)
(* of the payload states, and compared with the end of the payload.        *)
(***************************************************************************)
EXTENDS Integers

CONSTANT W   \* the size of the address space: 2^32

WordSize == 4
alignment == 1024 \div WordSize

\* In words; bytes is what the header states.
size(bytes) == bytes \div WordSize
size_aligned(bytes) == ((size(bytes) + alignment - 1) \div alignment) * alignment

\* The address that is compared with the end of the payload.
Behind(payload, bytes) == (payload + WordSize * size_aligned(bytes)) % W

Accepted(payload, payload_end, bytes) == ~(Behind(payload, bytes) > payload_end)
=============================================================================
