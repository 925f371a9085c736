------------------------------ MODULE MCEeprom ------------------------------
(* Instances of EepromProgrammer for TLC: the HEX files a user may load.   *)
EXTENDS EepromProgrammer

SmallFiles == {
  \* a record across a page boundary
  <<Record(0, 2, <<1, 2, 3, 4>>), Eof>>,
  \* records out of order, with a gap and an overlap
  <<Record(0, 5, <<5, 6>>), Record(0, 0, <<1>>), Record(0, 2, <<2>>), Record(0, 6, <<4>>), Eof>>,
  \* a record that runs over the end of the EEPROM, and no end of file
  <<Record(0, 6, <<1, 2, 3>>)>>,
  \* a corrupted checksum, a line that is no record, an extended address
  <<[Record(0, 0, <<3, 3>>) EXCEPT ![5] = 4], <<>>, Record(4, 0, <<0, 1>>),
    Record(0, 4, <<2>>), Eof, Record(0, 0, <<6>>)>>,
  \* a count that promises more than the line has
  <<Record(0, 0, <<3>>), <<4, 0, 0, 0, 4>>, Eof>>,
  <<Eof>> }

(* Dumps that begin outside, end outside, or are empty or negative.        *)
DumpStarts == {-1, 0, 2, 8}
DumpLengths == {-2, 0, 5, 7, 8}

=============================================================================
